---- MODULE Spec2Model ----
(***************************************************************************)
(* Model of the zipper archive builders:                                   *)
(*   - the entry-list ZIP builder          (src/zip.js, Zipper)            *)
(*   - the parts/central-directory builder (src/src/zip.js, class Zipper)  *)
(*   - the streaming builder               (src/unnamed/part_001,          *)
(*                                          class ZipperStream)            *)
(* Strings are sequences of UTF-16 code units, byte arrays are sequences   *)
(* of numbers in 0..255.                                                   *)
(*                                                                         *)
(* Numbers.  The integers of the model checker are 32-bit signed, so a     *)
(* JavaScript number that may reach 2^31 (a checksum, a length compared    *)
(* with 0xFFFFFFFF) is kept as a wide number [hi, lo] standing for         *)
(* hi * 65536 + lo with lo in 0..65535; the operands and results of the    *)
(* bitwise operators are kept as the signed 32-bit integers JavaScript     *)
(* computes on.                                                            *)
(***************************************************************************)
EXTENDS Integers, Sequences, FiniteSets, TLC

(***************************************************************************)
(* Bounds of the model.                                                    *)
(***************************************************************************)
\* Largest number of entries a batch builder is driven to.
MaxEntries == 2
\* Number of clock ticks (of two seconds) the wall clock may advance.
MaxClock == 1
\* Largest number of addStream invocations on one ZipperStream.
MaxCalls == 2
\* Largest number of chunk reads (resolved read() calls) on one ZipperStream.
MaxReads == 5
\* Longest path string handed to the first add of a fresh builder.
MaxPathLen == 4

(***************************************************************************)
(* Program constants.                                                      *)
(***************************************************************************)
\* 0xFFFF, the largest path / comment length of src/zip.js.
MaxUint16 == 65535
\* 0xFF, the largest filename length of src/src/zip.js.
MaxFilename == 255
\* The '/' character.
Slash == 47

(***************************************************************************)
(* Wide numbers.                                                           *)
(***************************************************************************)
Limb == 2 ^ 16

\* The wide form of a non-negative integer.
Wide(n) == [hi |-> n \div Limb, lo |-> n % Limb]

WideAdd(a, b) ==
    [hi |-> a.hi + b.hi + ((a.lo + b.lo) \div Limb), lo |-> (a.lo + b.lo) % Limb]

WideGt(a, b) == a.hi > b.hi \/ (a.hi = b.hi /\ a.lo > b.lo)

\* 0xFFFFFFFF, the largest data length.
MaxUint32 == [hi |-> 65535, lo |-> 65535]

(***************************************************************************)
(* 32-bit arithmetic of JavaScript's bitwise operators.                    *)
(***************************************************************************)
\* ToInt32 of a wide number: the signed value every bitwise operator works on.
ToInt32(w) ==
    LET h == w.hi % Limb
    IN  ((IF h >= 32768 THEN h - Limb ELSE h) * Limb) + w.lo

\* x >>> 0 of a signed 32-bit x: the same 32 bits read as an unsigned number.
ToUint32(x) == [hi |-> (x \div Limb) % Limb, lo |-> x % Limb]

\* ~x
BitNot(x) == (-1) - x

\* a ^ b on non-negative operands, bit by bit.
RECURSIVE XorBits(_, _)
XorBits(a, b) ==
    IF a = 0 THEN b
    ELSE IF b = 0 THEN a
    ELSE 2 * XorBits(a \div 2, b \div 2) + ((a + b) % 2)

\* The same on two hexadecimal digits, tabulated.
XorDigit == [x \in 0..15 |-> [y \in 0..15 |-> XorBits(x, y)]]

\* a ^ b on non-negative operands, four bits at a time.
RECURSIVE XorNat(_, _)
XorNat(a, b) ==
    IF a = 0 THEN b
    ELSE IF b = 0 THEN a
    ELSE 16 * XorNat(a \div 16, b \div 16) + XorDigit[a % 16][b % 16]

\* a ^ b on signed 32-bit operands (two's complement).
Xor(a, b) ==
    IF a >= 0 /\ b >= 0 THEN XorNat(a, b)
    ELSE IF a < 0 /\ b < 0 THEN XorNat(BitNot(a), BitNot(b))
    ELSE IF a < 0 THEN BitNot(XorNat(BitNot(a), b))
    ELSE BitNot(XorNat(a, BitNot(b)))

\* x >>> 8 of a signed 32-bit x.
Ushr8(x) == IF x >= 0 THEN x \div 256 ELSE (x \div 256) + 16777216

\* Storing a number into a Uint8Array element keeps its low 8 bits.
ToUint8(n) == n % 256

(***************************************************************************)
(* CRC tables.  Each entry is written as the signed 32-bit integer the ^   *)
(* operator turns the table's entry into (entry - 2^32 when the entry is   *)
(* 2^31 or more).                                                          *)
(***************************************************************************)
\* src/zip.js, the hexadecimal table inside bytesToCrc32.
CRC_TABLE == <<
    0, 1996959894, -301047508, -1727442502, 124634137, 1886057615,
    -379345611, -1637575261, 249268274, 2044508324, -522852066, -1747789432,
    162941995, 2125561021, -407360249, -1866523247, 498536548, 1789927666,
    -205950648, -2067906082, 450548861, 1843258603, -187386543, -2083289657,
    325883990, 1684777152, -43845254, -1973040660, 335633487, 1661365465,
    -99664541, -1928851979, 997073096, 1281953886, -715111964, -1570279054,
    1006888145, 1258607687, -770865667, -1526024853, 901097722, 1119000684,
    -608450090, -1396901568, 853044451, 1172266101, -589951537, -1412350631,
    651767980, 1373503546, -925412992, -1076862698, 565507253, 1454621731,
    -809855591, -1195530993, 671266974, 1594198024, -972236366, -1324619484,
    795835527, 1483230225, -1050600021, -1234817731, 1994146192, 31158534,
    -1731059524, -271249366, 1907459465, 112637215, -1614814043, -390540237,
    2013776290, 251722036, -1777751922, -519137256, 2137656763, 141376813,
    -1855689577, -429695999, 1802195444, 476864866, -2056965928, -228458418,
    1812370925, 453092731, -2113342271, -183516073, 1706088902, 314042704,
    -1950435094, -54949764, 1658658271, 366619977, -1932296973, -69972891,
    1303535960, 984961486, -1547960204, -725929758, 1256170817, 1037604311,
    -1529756563, -740887301, 1131014506, 879679996, -1385723834, -631195440,
    1141124467, 855842277, -1442165665, -586318647, 1342533948, 654459306,
    -1106571248, -921952122, 1466479909, 544179635, -1184443383, -832445281,
    1591671054, 702138776, -1328506846, -942167884, 1504918807, 783551873,
    -1212326853, -1061524307, -306674912, -1698712650, 62317068, 1957810842,
    -355121351, -1647151185, 81470997, 1943803523, -480048366, -1805370492,
    225274430, 2053790376, -468791541, -1828061283, 167816743, 2097651377,
    -267414716, -2029476910, 503444072, 1762050814, -144550051, -2140837941,
    426522225, 1852507879, -19653770, -1982649376, 282753626, 1742555852,
    -105259153, -1900089351, 397917763, 1622183637, -690576408, -1580100738,
    953729732, 1340076626, -776247311, -1497606297, 1068828381, 1219638859,
    -670225446, -1358292148, 906185462, 1090812512, -547295293, -1469587627,
    829329135, 1181335161, -882789492, -1134132454, 628085408, 1382605366,
    -871598187, -1156888829, 570562233, 1426400815, -977650754, -1296233688,
    733239954, 1555261956, -1026031705, -1244606671, 752459403, 1541320221,
    -1687895376, -328994266, 1969922972, 40735498, -1677130071, -351390145,
    1913087877, 83908371, -1782625662, -491226604, 2075208622, 213261112,
    -1831694693, -438977011, 2094854071, 198958881, -2032938284, -237706686,
    1759359992, 534414190, -2118248755, -155638181, 1873836001, 414664567,
    -2012718362, -15766928, 1711684554, 285281116, -1889165569, -127750551,
    1634467795, 376229701, -1609899400, -686959890, 1308918612, 956543938,
    -1486412191, -799009033, 1231636301, 1047427035, -1362007478, -640263460,
    1088359270, 936918000, -1447252397, -558129467, 1202900863, 817233897,
    -1111625188, -893730166, 1404277552, 615818150, -1160759803, -841546093,
    1423857449, 601450431, -1285129682, -1000256840, 1567103746, 711928724,
    -1274298825, -1022587231, 1510334235, 755167117
>>

\* src/src/zip.js, the decimal table Zipper._CRC_TABLE.
Zipper_CRC_TABLE == <<
    0, 1996959894, -301047508, -1727442502, 124634137, 1886057615,
    -379345611, -1637575261, 249268274, 2044508324, -522852066, -1747789432,
    162941995, 2125561021, -407360249, -1866523247, 498536548, 1789927666,
    -205950648, -2067906082, 450548861, 1843258603, -187386543, -2083289657,
    325883990, 1684777152, -43845254, -1973040660, 335633487, 1661365465,
    -99664541, -1928851979, 997073096, 1281953886, -715111964, -1570279054,
    1006888145, 1258607687, -770865667, -1526024853, 901097722, 1119000684,
    -608450090, -1396901568, 853044451, 1172266101, -589951537, -1412350631,
    651767980, 1373503546, -925412992, -1076862698, 565507253, 1454621731,
    -809855591, -1195530993, 671266974, 1594198024, -972236366, -1324619484,
    795835527, 1483230225, -1050600021, -1234817731, 1994146192, 31158534,
    -1731059524, -271249366, 1907459465, 112637215, -1614814043, -390540237,
    2013776290, 251722036, -1777751922, -519137256, 2137656763, 141376813,
    -1855689577, -429695999, 1802195444, 476864866, -2056965928, -228458418,
    1812370925, 453092731, -2113342271, -183516073, 1706088902, 314042704,
    -1950435094, -54949764, 1658658271, 366619977, -1932296973, -69972891,
    1303535960, 984961486, -1547960204, -725929758, 1256170817, 1037604311,
    -1529756563, -740887301, 1131014506, 879679996, -1385723834, -631195440,
    1141124467, 855842277, -1442165665, -586318647, 1342533948, 654459306,
    -1106571248, -921952122, 1466479909, 544179635, -1184443383, -832445281,
    1591671054, 702138776, -1328506846, -942167884, 1504918807, 783551873,
    -1212326853, -1061524307, -306674912, -1698712650, 62317068, 1957810842,
    -355121351, -1647151185, 81470997, 1943803523, -480048366, -1805370492,
    225274430, 2053790376, -468791541, -1828061283, 167816743, 2097651377,
    -267414716, -2029476910, 503444072, 1762050814, -144550051, -2140837941,
    426522225, 1852507879, -19653770, -1982649376, 282753626, 1742555852,
    -105259153, -1900089351, 397917763, 1622183637, -690576408, -1580100738,
    953729732, 1340076626, -776247311, -1497606297, 1068828381, 1219638859,
    -670225446, -1358292148, 906185462, 1090812512, -547295293, -1469587627,
    829329135, 1181335161, -882789492, -1134132454, 628085408, 1382605366,
    -871598187, -1156888829, 570562233, 1426400815, -977650754, -1296233688,
    733239954, 1555261956, -1026031705, -1244606671, 752459403, 1541320221,
    -1687895376, -328994266, 1969922972, 40735498, -1677130071, -351390145,
    1913087877, 83908371, -1782625662, -491226604, 2075208622, 213261112,
    -1831694693, -438977011, 2094854071, 198958881, -2032938284, -237706686,
    1759359992, 534414190, -2118248755, -155638181, 1873836001, 414664567,
    -2012718362, -15766928, 1711684554, 285281116, -1889165569, -127750551,
    1634467795, 376229701, -1609899400, -686959890, 1308918612, 956543938,
    -1486412191, -799009033, 1231636301, 1047427035, -1362007478, -640263460,
    1088359270, 936918000, -1447252397, -558129467, 1202900863, 817233897,
    -1111625188, -893730166, 1404277552, 615818150, -1160759803, -841546093,
    1423857449, 601450431, -1285129682, -1000256840, 1567103746, 711928724,
    -1274298825, -1022587231, 1510334235, 755167117
>>
(***************************************************************************)
(* Byte / field codec (identical in src/zip.js and src/src/zip.js).        *)
(***************************************************************************)
\* bytesToCrc32 of src/zip.js: crc starts at -1, every byte does
\* crc = (crc >>> 8) ^ CRC_TABLE[(crc ^ bytes[i]) & 0xFF]; st is the pair [crc, i]
\* of the loop (i counts from 1 here).
RECURSIVE crcLoop(_, _)
crcLoop(st, bytes) ==
    IF st.i > Len(bytes) THEN st.crc
    ELSE crcLoop([crc |-> Xor(Ushr8(st.crc),
                              CRC_TABLE[(Xor(st.crc, bytes[st.i]) % 256) + 1]),
                  i |-> st.i + 1],
                 bytes)

\* A faulty variant of bytesToCrc32, which starts from crc = 0: it tests that
\* C15_CrcIsStandard depends on the initial value.
bytesToCrc32ZeroInit(bytes) ==
    ToUint32(Xor(crcLoop([crc |-> 0, i |-> 1], bytes), -1))

\* return (crc ^ (-1)) >>> 0
bytesToCrc32(bytes) == ToUint32(Xor(crcLoop([crc |-> -1, i |-> 1], bytes), -1))

\* Zipper.bytesToCrc32 of src/src/zip.js, over Zipper._CRC_TABLE.
RECURSIVE Zipper_crcLoop(_, _)
Zipper_crcLoop(st, bytes) ==
    IF st.i > Len(bytes) THEN st.crc
    ELSE Zipper_crcLoop(
             [crc |-> Xor(Ushr8(st.crc),
                          Zipper_CRC_TABLE[(Xor(st.crc, bytes[st.i]) % 256) + 1]),
              i |-> st.i + 1],
             bytes)

Zipper_bytesToCrc32(bytes) ==
    ToUint32(Xor(Zipper_crcLoop([crc |-> -1, i |-> 1], bytes), -1))

\* stringToBytes: arr[i] = str.charCodeAt(i), wrapped into a byte.
stringToBytes(str) == [i \in 1..Len(str) |-> ToUint8(str[i])]

\* Zipper.bytesToString: String.fromCharCode of every byte.
bytesToString(bytes) == [i \in 1..Len(bytes) |-> bytes[i]]

\* numberToBytes(n, len) of a wide number n: bytes[i] = n & 0xFF; n >>= 8;
\* least significant byte first.  x is the signed 32-bit value of n.
RECURSIVE numberToBytesLoop(_, _)
numberToBytesLoop(x, len) ==
    IF len = 0 THEN << >>
    ELSE <<x % 256>> \o numberToBytesLoop(x \div 256, len - 1)

numberToBytes(n, len) == numberToBytesLoop(ToInt32(n), len)

\* n << 8 of a signed 32-bit n: the low 24 bits move up, the rest is lost.
Shl8(n) ==
    LET low == n % 16777216
    IN  ((IF low >= 8388608 THEN low - 16777216 ELSE low) * 256)

\* Zipper.bytesToNumber: n <<= 8; n += bytes[i] & 0xFF, from the last byte down.
RECURSIVE bytesToNumberLoop(_, _, _)
bytesToNumberLoop(bytes, i, n) ==
    IF i < 1 THEN n
    ELSE bytesToNumberLoop(bytes, i - 1, Shl8(n) + (bytes[i] % 256))

bytesToNumber(bytes) == bytesToNumberLoop(bytes, Len(bytes), 0)

\* Sum of the lengths of a list of byte arrays
\* (parts.reduce((total, part) => total + part.length, 0)).
RECURSIVE totalLength(_)
totalLength(list) ==
    IF list = << >> THEN 0 ELSE Len(Head(list)) + totalLength(Tail(list))

\* concatArrays / the copy loop of toUint8Array: one array out of many.
RECURSIVE concatArrays(_)
concatArrays(list) ==
    IF list = << >> THEN << >> ELSE Head(list) \o concatArrays(Tail(list))

(***************************************************************************)
(* The wall clock.  now counts two-second ticks from 10:29:58 on the 6th   *)
(* of November 2026; new Date() reads it.                                  *)
(***************************************************************************)
\* A Date, by the values its getters return (getMonth() counts from 0).
DateAt(t) ==
    LET secs == 37798 + 2 * t
    IN  [year |-> 2026, month |-> 10, date |-> 6,
         hours |-> secs \div 3600,
         minutes |-> (secs % 3600) \div 60,
         seconds |-> secs % 60]

\* Zipper.dateToBytes of src/src/zip.js.
Zipper_dateToBytes(date) ==
    LET day == date.date
        month == date.month + 1
        year == date.year - 1980
        n == (year * 512) + (month * 32) + day
    IN  numberToBytes(Wide(n), 2)

\* Zipper.timeToBytes of src/src/zip.js.
Zipper_timeToBytes(date) ==
    LET h == date.hours
        m == date.minutes
        s == date.seconds \div 2
        n == (h * 2048) + (m * 32) + s
    IN  numberToBytes(Wide(n), 2)

\* The number of days of month m (counted from 0) of year y.
DaysInMonth(y, m) ==
    IF m = 1
    THEN (IF (y % 4 = 0 /\ y % 100 # 0) \/ y % 400 = 0 THEN 29 ELSE 28)
    ELSE IF m \in {3, 5, 8, 10} THEN 30 ELSE 31

\* d.setFullYear(year, month, day) for month in -12..23 and day in 0..31, by
\* the values getFullYear(), getMonth() and getDate() return afterwards: a
\* month outside 0..11 moves the year, day 0 is the last day of the month
\* before, a day past the end of the month runs into the next month.
setFullYear(year, month, day) ==
    LET y == year + (month \div 12)
        m == month % 12
    IN  IF day = 0
        THEN (IF m = 0 THEN [year |-> y - 1, month |-> 11, date |-> 31]
              ELSE [year |-> y, month |-> m - 1, date |-> DaysInMonth(y, m - 1)])
        ELSE IF day > DaysInMonth(y, m)
        THEN (IF m = 11
              THEN [year |-> y + 1, month |-> 0, date |-> day - 31]
              ELSE [year |-> y, month |-> m + 1, date |-> day - DaysInMonth(y, m)])
        ELSE [year |-> y, month |-> m, date |-> day]

\* A faulty variant of Zipper_bytesToDate, which hands the month field to
\* setFullYear as it is stored (1..12): it tests that C19_DateTimeRoundTrip
\* reads the month.
Zipper_bytesToDateMonthKept(bytes) ==
    LET n == bytesToNumber(bytes)
    IN  setFullYear(((n \div 512) % 128) + 1980, (n \div 32) % 16, n % 32)

\* Zipper.bytesToDate of src/src/zip.js: the date of the returned Date (its
\* time of day is the local time of new Date(0)).
Zipper_bytesToDate(bytes) ==
    LET n == bytesToNumber(bytes)
        day == n % 32
        month == ((n \div 32) % 16) - 1
        year == ((n \div 512) % 128) + 1980
    IN  setFullYear(year, month, day)

\* Zipper.bytesToTime of src/src/zip.js: the time of day of the returned Date
\* (its date is the local date of new Date(0), or the day after it when the
\* fields run past 23:59:59).  setHours, setMinutes and setSeconds replace
\* one field each and carry what exceeds it into the fields above.
Zipper_bytesToTime(bytes) ==
    LET n == bytesToNumber(bytes)
        seconds == (n % 32) * 2
        minutes == (n \div 32) % 64
        hours == (n \div 2048) % 32
        total == (hours * 3600) + (minutes * 60) + seconds
    IN  [hours |-> (total \div 3600) % 24,
         minutes |-> (total \div 60) % 60,
         seconds |-> total % 60]

\* dateToBytes of src/zip.js: four bytes, each wrapped into a Uint8Array element.
dateToBytes(date) ==
    LET h == date.hours
        m == date.minutes
        s == date.seconds
        year == date.year - 1980
        month == date.month + 1
        day == date.date
    IN  << ToUint8((h * 8) + (m \div 8)),
           ToUint8(((m * 32) % 256) + (s \div 2)),
           ToUint8((year * 2) + (month \div 8)),
           ToUint8(((month * 32) % 256) + day) >>
(***************************************************************************)
(* JavaScript values handed to the builders: t is the type the code tests  *)
(* (typeof, instanceof, Array.isArray), v the characters, bytes or         *)
(* elements; for a number v is String(value).                              *)
(***************************************************************************)
JsString(s) == [t |-> "string", v |-> s]
JsUint8Array(b) == [t |-> "Uint8Array", v |-> b]
JsArray(a) == [t |-> "Array", v |-> a]
JsNumber(digits) == [t |-> "number", v |-> digits]
JsNull == [t |-> "null", v |-> << >>]
JsUndefined == [t |-> "undefined", v |-> << >>]
JsObject == [t |-> "object", v |-> << >>]

\* !x of a value: null, undefined and the empty string are falsy
\* (the numbers of the model are non-zero).
Falsy(x) == x.t \in {"null", "undefined"} \/ (x.t = "string" /\ x.v = << >>)

(***************************************************************************)
(* State.                                                                  *)
(***************************************************************************)
VARIABLES
    now,        \* the wall clock, in ticks
    entries,    \* src/zip.js: this._entries, records [path, data]
    parts,      \* src/src/zip.js: this._parts, two byte arrays per entry
    cd,         \* src/src/zip.js: this._cd, one header per entry
    last,       \* the latest add / pop call: its outcome and, for addFile /
                \* addFolder, its path argument
    packed      \* outcome of the latest materialization since the last add / pop

(***************************************************************************)
(* String replacements shared by the builders.                             *)
(***************************************************************************)
\* .replace(/\/+/g, '/'): every run of '/' becomes one '/'.  A string with
\* no two adjacent '/' has nothing to replace; any other string is handled
\* in two halves, and a run that crosses the middle is joined there.
RECURSIVE collapseSlashes(_)
collapseSlashes(s) ==
    IF \A i \in 1..(Len(s) - 1) : s[i] # Slash \/ s[i + 1] # Slash THEN s
    ELSE LET half == Len(s) \div 2
             left == collapseSlashes(SubSeq(s, 1, half))
             right == collapseSlashes(SubSeq(s, half + 1, Len(s)))
         IN  IF left[Len(left)] = Slash /\ right[1] = Slash
             THEN left \o Tail(right)
             ELSE left \o right

\* .replace(/^\//, ''): drop one leading '/'.
stripLeadingSlash(s) == IF s # << >> /\ s[1] = Slash THEN Tail(s) ELSE s

\* .replace(/\/$/, ''): drop one trailing '/'.
stripTrailingSlash(s) ==
    IF s # << >> /\ s[Len(s)] = Slash THEN SubSeq(s, 1, Len(s) - 1) ELSE s

(***************************************************************************)
(* src/src/zip.js: class Zipper (parts / central directory builder).       *)
(***************************************************************************)
\* The conversion of 'data' to a Uint8Array; ok is FALSE for the final else.
Zipper_toData(data) ==
    IF data.t = "Uint8Array" THEN [ok |-> TRUE, bytes |-> data.v]
    ELSE IF data.t = "string" THEN [ok |-> TRUE, bytes |-> stringToBytes(data.v)]
    ELSE IF data.t \in {"ArrayBuffer", "Array"}
         THEN [ok |-> TRUE, bytes |-> [i \in 1..Len(data.v) |-> ToUint8(data.v[i])]]
    ELSE IF Falsy(data) THEN [ok |-> TRUE, bytes |-> << >>]
    ELSE [ok |-> FALSE, bytes |-> << >>]

\* getNames: the filenames decoded from the Central Directory Headers.
Zipper_getNames(cdList) ==
    [k \in 1..Len(cdList) |->
        LET bytes == cdList[k]
            filenameLength == bytesToNumber(SubSeq(bytes, 29, 30))
        IN  bytesToString(SubSeq(bytes, 47, 46 + filenameLength))]

\* names.includes(filename)
Includes(names, filename) == \E k \in 1..Len(names) : names[k] = filename

\* The Local File Header built by _addEntry.
Zipper_localHeader(filename, data, date) ==
    LET checksum == Zipper_bytesToCrc32(data)
        extraField == << >>
    IN  <<80, 75, 3, 4>> \o <<10, 0>> \o <<0, 0>> \o <<0, 0>>
        \o Zipper_timeToBytes(date)
        \o Zipper_dateToBytes(date)
        \o numberToBytes(checksum, 4)
        \o numberToBytes(Wide(Len(data)), 4)
        \o numberToBytes(Wide(Len(data)), 4)
        \o numberToBytes(Wide(Len(filename)), 2)
        \o numberToBytes(Wide(Len(extraField)), 2)
        \o stringToBytes(filename)
        \o stringToBytes(extraField)

\* The Central Directory Header built by _addEntry.
Zipper_cdHeader(filename, data, date, offset, isFolder) ==
    LET checksum == Zipper_bytesToCrc32(data)
        extraField == << >>
        fileCommentBytes == stringToBytes(<< >>)
        externalBytes == IF isFolder THEN <<16, 0, 237, 65>> ELSE <<0, 0, 164, 129>>
    IN  <<80, 75, 1, 2>> \o <<30, 3>> \o <<10, 0>> \o <<0, 0>> \o <<0, 0>>
        \o Zipper_timeToBytes(date)
        \o Zipper_dateToBytes(date)
        \o numberToBytes(checksum, 4)
        \o numberToBytes(Wide(Len(data)), 4)
        \o numberToBytes(Wide(Len(data)), 4)
        \o numberToBytes(Wide(Len(filename)), 2)
        \o numberToBytes(Wide(Len(extraField)), 2)
        \o numberToBytes(Wide(Len(fileCommentBytes)), 2)
        \o numberToBytes(Wide(0), 2)
        \o <<0, 0>>
        \o externalBytes
        \o numberToBytes(Wide(offset), 4)
        \o stringToBytes(filename)
        \o stringToBytes(extraField)
        \o fileCommentBytes

\* A faulty variant of Zipper_skip, which leaves an empty byte array behind in
\* this._parts: it tests that C4_FailedAddChangesNothing sees a partial
\* registration.
Zipper_skipPartial(p, c) ==
    [parts |-> Append(p, << >>), cd |-> c, ret |-> Len(c), threw |-> FALSE,
     registered |-> FALSE]

\* A call that warns and returns this._cd.length without storing anything.
Zipper_skip(p, c) ==
    [parts |-> p, cd |-> c, ret |-> Len(c), threw |-> FALSE, registered |-> FALSE]

\* _addEntry(filename, data, isFolder) on the builder state (p, c) at time t.
Zipper_addEntry(p, c, t, filename, data, isFolder) ==
    IF filename.t # "string" THEN Zipper_skip(p, c)
    ELSE
    LET trimmed == stripTrailingSlash(stripLeadingSlash(collapseSlashes(filename.v)))
    IN
    IF Len(trimmed) = 0 THEN Zipper_skip(p, c)
    ELSE
    LET name == IF isFolder /\ trimmed[Len(trimmed)] # Slash
                THEN trimmed \o <<Slash>> ELSE trimmed
    IN
    IF Len(name) > MaxFilename THEN Zipper_skip(p, c)
    ELSE IF Includes(Zipper_getNames(c), name) THEN Zipper_skip(p, c)
    ELSE
    LET conv == Zipper_toData(data)
    IN
    IF ~conv.ok THEN Zipper_skip(p, c)
    ELSE IF WideGt(Wide(Len(conv.bytes)), MaxUint32) THEN Zipper_skip(p, c)
    ELSE
    LET date == DateAt(t)
        offset == totalLength(p)
        localHeader == Zipper_localHeader(name, conv.bytes, date)
        cdHeader == Zipper_cdHeader(name, conv.bytes, date, offset, isFolder)
    IN  [parts |-> p \o <<localHeader, conv.bytes>>,
         cd |-> c \o <<cdHeader>>,
         ret |-> Len(c) + 1,
         threw |-> FALSE,
         registered |-> TRUE]

\* Array.prototype.pop: the list without its last element (unchanged when empty).
ArrayPop(list) == IF list = << >> THEN list ELSE SubSeq(list, 1, Len(list) - 1)

\* A faulty variant of Zipper_getEOCD, which writes the size and the offset of
\* the Central Directory in each other's field: it tests that C6_EOCDFields
\* reads both fields.
Zipper_getEOCDSwapped(p, c, commentArg) ==
    LET comment == IF commentArg.t # "string" THEN << >>
                   ELSE IF Len(commentArg.v) > 65535
                        THEN SubSeq(commentArg.v, 1, 65535)
                   ELSE commentArg.v
    IN  <<80, 75, 5, 6>> \o <<0, 0>> \o <<0, 0>>
        \o numberToBytes(Wide(Len(c)), 2)
        \o numberToBytes(Wide(Len(c)), 2)
        \o numberToBytes(Wide(totalLength(p)), 4)
        \o numberToBytes(Wide(totalLength(c)), 4)
        \o numberToBytes(Wide(Len(comment)), 2)
        \o stringToBytes(comment)

\* _getEOCD(comment): the End Of Central Directory of the builder state (p, c).
Zipper_getEOCD(p, c, commentArg) ==
    LET comment == IF Falsy(commentArg) THEN << >>
                   ELSE IF commentArg.t # "string" THEN << >>
                   ELSE IF Len(commentArg.v) > 65535
                        THEN SubSeq(commentArg.v, 1, 65535)
                   ELSE commentArg.v
        numEntries == Len(c)
        cdSize == totalLength(c)
        cdOffset == totalLength(p)
    IN  <<80, 75, 5, 6>> \o <<0, 0>> \o <<0, 0>>
        \o numberToBytes(Wide(numEntries), 2)
        \o numberToBytes(Wide(numEntries), 2)
        \o numberToBytes(Wide(cdSize), 4)
        \o numberToBytes(Wide(cdOffset), 4)
        \o numberToBytes(Wide(Len(comment)), 2)
        \o stringToBytes(comment)

\* toUint8Array(comment): parts, central directory and EOCD in one array.
Zipper_toUint8Array(p, c, commentArg) ==
    concatArrays(p \o c \o <<Zipper_getEOCD(p, c, commentArg)>>)
(***************************************************************************)
(* src/zip.js: Zipper (entry-list builder).                                *)
(***************************************************************************)
\* String(x)
JsToString(x) ==
    IF x.t \in {"string", "number"} THEN x.v
    ELSE IF x.t = "null" THEN <<110, 117, 108, 108>>
    ELSE IF x.t = "undefined" THEN <<117, 110, 100, 101, 102, 105, 110, 101, 100>>
    ELSE <<91, 111, 98, 106, 101, 99, 116, 32, 79, 98, 106, 101, 99, 116, 93>>

\* The characters of /[\x00-\x19\x7F]/.
IsControl(ch) == ch <= 25 \/ ch = 127

\* .replace(/[\x00-\x19\x7F]/, ''): without the g flag only the first match goes.
RECURSIVE removeFirstControl(_)
removeFirstControl(s) ==
    IF s = << >> THEN s
    ELSE IF IsControl(Head(s)) THEN Tail(s)
    ELSE <<Head(s)>> \o removeFirstControl(Tail(s))

\* The white space and line terminators String.prototype.trim removes.
IsWhiteSpace(ch) ==
    \/ ch \in {9, 10, 11, 12, 13, 32, 160, 5760, 8232, 8233, 8239, 8287, 12288, 65279}
    \/ (ch >= 8192 /\ ch <= 8202)

RECURSIVE trimStart(_)
trimStart(s) ==
    IF s # << >> /\ IsWhiteSpace(Head(s)) THEN trimStart(Tail(s)) ELSE s

RECURSIVE trimEnd(_)
trimEnd(s) ==
    IF s # << >> /\ IsWhiteSpace(s[Len(s)])
    THEN trimEnd(SubSeq(s, 1, Len(s) - 1)) ELSE s

trim(s) == trimEnd(trimStart(s))

\* The chain of replacements at the top of addEntry.
normalizePath(path) ==
    stripTrailingSlash(stripLeadingSlash(trim(collapseSlashes(
        removeFirstControl(JsToString(path))))))

\* str.startsWith(prefix)
StartsWith(str, prefix) ==
    Len(prefix) <= Len(str) /\ SubSeq(str, 1, Len(prefix)) = prefix

\* getFile(path) !== undefined
hasFile(es, path) == \E i \in 1..Len(es) : es[i].path = path

\* getFolder(path) !== undefined
hasFolder(es, path) ==
    \E i \in 1..Len(es) : StartsWith(es[i].path, path \o <<Slash>>)

\* getFolderPathsFromPath: "my/file/here.txt" gives {"my", "my/file"}:
\* the text before every '/'.
getFolderPathsFromPath(path) ==
    { SubSeq(path, 1, k - 1) : k \in { j \in 1..Len(path) : path[j] = Slash } }

\* The conversion of 'data' to a Uint8Array in addEntry; ok is FALSE when the
\* final else throws.
toData(data) ==
    IF data.t = "Uint8Array" THEN [ok |-> TRUE, bytes |-> data.v]
    ELSE IF data.t = "string" THEN [ok |-> TRUE, bytes |-> stringToBytes(data.v)]
    ELSE IF data.t \in {"ArrayBuffer", "Array"}
         THEN [ok |-> TRUE, bytes |-> [i \in 1..Len(data.v) |-> ToUint8(data.v[i])]]
    ELSE IF Falsy(data) THEN [ok |-> TRUE, bytes |-> << >>]
    ELSE [ok |-> FALSE, bytes |-> << >>]

\* A call that throws: nothing is stored.
throwError(es, reason) ==
    [entries |-> es, ret |-> 0, threw |-> TRUE, registered |-> FALSE, error |-> reason]

\* addEntry(path, data) on the entry list es.
addEntry(es, pathArg, data) ==
    LET path == normalizePath(pathArg)
    IN
    IF Len(path) = 0 THEN throwError(es, "path is empty")
    ELSE IF Len(path) > MaxUint16 THEN throwError(es, "path exceeds maximum")
    ELSE IF hasFile(es, path) THEN throwError(es, "path already exists")
    ELSE IF hasFolder(es, path)
         THEN throwError(es, "path collides with an existing folder")
    ELSE IF \E parent \in getFolderPathsFromPath(path) : hasFile(es, parent)
         THEN throwError(es, "path parent folder collides with an existing file")
    ELSE
    LET conv == toData(data)
    IN
    IF ~conv.ok THEN throwError(es, "unsupported data")
    ELSE IF WideGt(Wide(Len(conv.bytes)), MaxUint32)
         THEN throwError(es, "data exceeds maximum size")
    ELSE [entries |-> es \o <<[path |-> path, data |-> conv.bytes]>>,
          ret |-> Len(es) + 1,
          threw |-> FALSE,
          registered |-> TRUE,
          error |-> ""]

\* validateComment(str): ok is FALSE when it throws.
validateComment(str) ==
    IF str.t \in {"null", "undefined"} THEN [ok |-> TRUE, comment |-> << >>]
    ELSE IF Len(JsToString(str)) > MaxUint16 THEN [ok |-> FALSE, comment |-> << >>]
    ELSE [ok |-> TRUE, comment |-> JsToString(str)]

\* getLocalFileHeader({checksum, size, path}); date is what new Date() gave.
getLocalFileHeader(checksum, size, path, date) ==
    LET extra == << >>
    IN  <<80, 75, 3, 4>> \o <<10, 0>> \o <<0, 0>> \o <<0, 0>>
        \o dateToBytes(date)
        \o numberToBytes(checksum, 4)
        \o numberToBytes(Wide(size), 4)
        \o numberToBytes(Wide(size), 4)
        \o numberToBytes(Wide(Len(path)), 2)
        \o numberToBytes(Wide(Len(extra)), 2)
        \o stringToBytes(path)
        \o stringToBytes(extra)

\* getCentralDirectoryHeader({checksum, size, path, offset}).
getCentralDirectoryHeader(checksum, size, path, offset, date) ==
    LET extra == << >>
        comment == validateComment(JsString(<< >>)).comment
    IN  <<80, 75, 1, 2>> \o <<30, 3>> \o <<10, 0>> \o <<0, 0>> \o <<0, 0>>
        \o dateToBytes(date)
        \o numberToBytes(checksum, 4)
        \o numberToBytes(Wide(size), 4)
        \o numberToBytes(Wide(size), 4)
        \o numberToBytes(Wide(Len(path)), 2)
        \o numberToBytes(Wide(Len(extra)), 2)
        \o numberToBytes(Wide(Len(comment)), 2)
        \o <<0, 0>>
        \o <<0, 0>>
        \o <<0, 0, 164, 129>>
        \o numberToBytes(Wide(offset), 4)
        \o stringToBytes(path)
        \o stringToBytes(extra)
        \o stringToBytes(comment)

\* getEOCDHeader({entries, cdSize, cdOffset, comment}).
getEOCDHeader(numEntries, cdSize, cdOffset, comment) ==
    <<80, 75, 5, 6>> \o <<0, 0>> \o <<0, 0>>
    \o numberToBytes(Wide(numEntries), 2)
    \o numberToBytes(Wide(numEntries), 2)
    \o numberToBytes(Wide(cdSize), 4)
    \o numberToBytes(Wide(cdOffset), 4)
    \o numberToBytes(Wide(Len(comment)), 2)
    \o stringToBytes(comment)

\* options.comment of the argument of _pack after options = options || {}:
\* only an options object has the property.
optionsComment(options) ==
    IF options.t = "object" THEN options.comment ELSE JsUndefined

\* The loop of _pack from entry i on: [parts, cd, offset, cdSize].  times[2i-1]
\* and times[2i] are the clock readings of the two headers of entry i.
RECURSIVE packLoop(_, _, _, _)
packLoop(es, times, i, acc) ==
    IF i > Len(es) THEN acc
    ELSE
    LET path == es[i].path
        data == es[i].data
        checksum == bytesToCrc32(data)
        localHeader == getLocalFileHeader(checksum, Len(data), path,
                                          DateAt(times[2 * i - 1]))
        cdHeader == getCentralDirectoryHeader(checksum, Len(data), path, acc.offset,
                                              DateAt(times[2 * i]))
    IN  packLoop(es, times, i + 1,
                 [parts |-> acc.parts \o <<localHeader, data>>,
                  cd |-> acc.cd \o <<cdHeader>>,
                  offset |-> acc.offset + Len(localHeader) + Len(data),
                  cdSize |-> acc.cdSize + Len(cdHeader)])

\* _pack(options): ok is FALSE when validateComment throws; otherwise the list
\* of chunks parts.concat(cd, eocd).
pack(es, options, times) ==
    LET given == optionsComment(options)
        v == validateComment(IF Falsy(given) THEN JsString(<< >>) ELSE given)
    IN
    IF ~v.ok THEN [ok |-> FALSE, chunks |-> << >>]
    ELSE
    LET r == packLoop(es, times, 1,
                      [parts |-> << >>, cd |-> << >>, offset |-> 0, cdSize |-> 0])
        eocd == getEOCDHeader(Len(r.cd), r.cdSize, r.offset, v.comment)
    IN  [ok |-> TRUE, chunks |-> r.parts \o r.cd \o <<eocd>>]

\* toUint8Array(options) = concatArrays(this._pack(options)).
toUint8Array(es, options, times) ==
    LET r == pack(es, options, times)
    IN  [ok |-> r.ok, bytes |-> concatArrays(r.chunks)]
(***************************************************************************)
(* src/unnamed/part_001: class ZipperStream.                               *)
(*                                                                         *)
(* A chunk delivered by a source is [length, bytes]: value.length (a wide   *)
(* number) and the elements value[0..].  The output is the list of chunks  *)
(* handed to controller.enqueue, each recorded with the addStream call     *)
(* that enqueued it (call 0 is finalise) and what it is.                   *)
(***************************************************************************)
VARIABLES
    out,         \* chunks enqueued on this.readable, in order
    closed,      \* controller.close() has been called
    totalBytes,  \* this._totalBytes
    streamCd,    \* this._cd of the ZipperStream
    calls,       \* the addStream invocations, in the order they were made
    finalised,   \* outcome of the latest finalise call
    taken        \* how many chunks the consumer of this.readable has read

Chunk(bytes) == [length |-> Wide(Len(bytes)), bytes |-> bytes]

\* value[i] inside crc ^ value[i]: an index past the end reads undefined,
\* which the bitwise operator takes as 0.
ValueAt(value, i) == IF i < Len(value.bytes) THEN value.bytes[i + 1] ELSE 0

\* The loop "while (i < fileLength) { crc = ...value[i]...; i++ }" of addStream,
\* on the pair st = [crc, i].
RECURSIVE maintainChecksum(_, _, _)
maintainChecksum(st, fileLength, value) ==
    IF ~WideGt(fileLength, Wide(st.i)) THEN st
    ELSE maintainChecksum(
             [crc |-> Xor(Ushr8(st.crc),
                          CRC_TABLE[(Xor(st.crc, ValueAt(value, st.i)) % 256) + 1]),
              i |-> st.i + 1],
             fileLength, value)

\* The Local File Header addStream enqueues.
Stream_localHeader(filename, date) ==
    LET extraField == << >>
    IN  <<80, 75, 3, 4>> \o <<20, 0>> \o <<8, 0>> \o <<0, 0>>
        \o Zipper_timeToBytes(date)
        \o Zipper_dateToBytes(date)
        \o <<0, 0, 0, 0>> \o <<0, 0, 0, 0>> \o <<0, 0, 0, 0>>
        \o numberToBytes(Wide(Len(filename)), 2)
        \o numberToBytes(Wide(Len(extraField)), 2)
        \o stringToBytes(filename)
        \o stringToBytes(extraField)

\* The Data Descriptor addStream enqueues.
Stream_dataDescriptor(crc, fileLength) ==
    LET checksum == ToUint32(Xor(crc, -1))
    IN  <<80, 75, 7, 8>>
        \o numberToBytes(checksum, 4)
        \o numberToBytes(fileLength, 4)
        \o numberToBytes(fileLength, 4)

\* A faulty variant of Stream_cdHeader, which writes the length of the entry
\* into the offset field: it tests that C23_StreamOffsets reads that field.
Stream_cdHeaderSizeAsOffset(filename, date, crc, fileLength, offset) ==
    LET checksum == ToUint32(Xor(crc, -1))
        extraField == << >>
        fileCommentBytes == stringToBytes(<< >>)
    IN  <<80, 75, 1, 2>> \o <<45, 3>> \o <<20, 0>> \o <<8, 0>> \o <<0, 0>>
        \o Zipper_timeToBytes(date)
        \o Zipper_dateToBytes(date)
        \o numberToBytes(checksum, 4)
        \o numberToBytes(fileLength, 4)
        \o numberToBytes(fileLength, 4)
        \o numberToBytes(Wide(Len(filename)), 2)
        \o numberToBytes(Wide(Len(extraField)), 2)
        \o numberToBytes(Wide(Len(fileCommentBytes)), 2)
        \o numberToBytes(Wide(0), 2)
        \o <<0, 0>>
        \o <<0, 0, 164, 129>>
        \o numberToBytes(fileLength, 4)
        \o stringToBytes(filename)
        \o stringToBytes(extraField)
        \o fileCommentBytes

\* The Central Directory Header addStream pushes on this._cd.
Stream_cdHeader(filename, date, crc, fileLength, offset) ==
    LET checksum == ToUint32(Xor(crc, -1))
        extraField == << >>
        fileCommentBytes == stringToBytes(<< >>)
    IN  <<80, 75, 1, 2>> \o <<45, 3>> \o <<20, 0>> \o <<8, 0>> \o <<0, 0>>
        \o Zipper_timeToBytes(date)
        \o Zipper_dateToBytes(date)
        \o numberToBytes(checksum, 4)
        \o numberToBytes(fileLength, 4)
        \o numberToBytes(fileLength, 4)
        \o numberToBytes(Wide(Len(filename)), 2)
        \o numberToBytes(Wide(Len(extraField)), 2)
        \o numberToBytes(Wide(Len(fileCommentBytes)), 2)
        \o numberToBytes(Wide(0), 2)
        \o <<0, 0>>
        \o <<0, 0, 164, 129>>
        \o numberToBytes(offset, 4)
        \o stringToBytes(filename)
        \o stringToBytes(extraField)
        \o fileCommentBytes

\* The End Of Central Directory finalise enqueues.
Stream_eocd(numEntries, cdSize, cdOffset, commentArg) ==
    LET comment == IF Falsy(commentArg) THEN << >>
                   ELSE IF commentArg.t # "string" THEN << >>
                   ELSE IF Len(commentArg.v) > 65535
                        THEN SubSeq(commentArg.v, 1, 65535)
                   ELSE commentArg.v
    IN  <<80, 75, 5, 6>> \o <<0, 0>> \o <<0, 0>>
        \o numberToBytes(Wide(numEntries), 2)
        \o numberToBytes(Wide(numEntries), 2)
        \o numberToBytes(Wide(cdSize), 4)
        \o numberToBytes(cdOffset, 4)
        \o numberToBytes(Wide(Len(comment)), 2)
        \o stringToBytes(comment)

\* An addStream invocation that has rejected (an exception left the async function).
Rejected(call) == [call EXCEPT !.pc = "rejected"]

\* The record of an addStream invocation that never got past its checks.
FailedCall ==
    [pc |-> "rejected", filename |-> << >>, source |-> << >>,
     received |-> << >>, offset |-> Wide(0), date |-> DateAt(0),
     crc |-> -1, fileLength |-> Wide(0), i |-> 0, reads |-> 0, ret |-> 0]

(***************************************************************************)
(* State of the TAR builder and of the calls of single functions.          *)
(***************************************************************************)
VARIABLES
    files,      \* src/tar.js: this._files, records [path, data]
    input,      \* the argument a function of the codec is called with
    result      \* what the calls made on input have returned


(***************************************************************************)
(* src/tar.js: the TAR builder.                                            *)
(***************************************************************************)
\* stringToBytes(str, len): arr[i] = str.charCodeAt(i) for i < len; past the
\* end of the string charCodeAt gives NaN, which a Uint8Array stores as 0.
Tar_stringToBytes(str, len) ==
    [i \in 1..len |-> IF i <= Len(str) THEN ToUint8(str[i]) ELSE 0]

\* n.toString(base) of a natural number, as character codes.
RECURSIVE NumberToString(_, _)
NumberToString(n, base) ==
    IF n < base THEN <<48 + n>>
    ELSE NumberToString(n \div base, base) \o <<48 + (n % base)>>

\* s.substr(s.length - k) for a string of at least k characters.
LastChars(s, k) == SubSeq(s, Len(s) - k + 1, Len(s))

\* k characters '0'.
Zeros(k) == [i \in 1..k |-> 48]

\* sumOfArrays: the sum of all bytes of the arrays, here of their
\* concatenation, added up half by half.
RECURSIVE sumOfArrays(_)
sumOfArrays(arr) ==
    IF arr = << >> THEN 0
    ELSE IF Len(arr) = 1 THEN arr[1]
    ELSE LET half == Len(arr) \div 2
         IN  sumOfArrays(SubSeq(arr, 1, half))
             + sumOfArrays(SubSeq(arr, half + 1, Len(arr)))

\* Math.floor(Number(new Date()) * 0.001) at clock reading t, the clock of
\* the host running on UTC.
EpochSeconds(t) == 1793960998 + (2 * t)

\* getTarHeader({path, size}) at clock reading t.
getTarHeader(path, size, t) ==
    LET pathBytes == Tar_stringToBytes(path, 100)
        modeBytes == Tar_stringToBytes(<<48, 48, 48, 54, 52, 52, 32>>, 8)
        ownerBytes == Tar_stringToBytes(<<48, 48, 48, 48, 48, 48, 32>>, 8)
        groupBytes == Tar_stringToBytes(<<48, 48, 48, 48, 48, 48, 32>>, 8)
        sizeStr == LastChars(Zeros(11) \o NumberToString(size, 10) \o <<32>>, 12)
        sizeBytes == Tar_stringToBytes(sizeStr, 12)
        dateStr == LastChars(Zeros(11) \o NumberToString(EpochSeconds(t), 8)
                             \o <<32>>, 12)
        dateBytes == Tar_stringToBytes(dateStr, 12)
        linkBytes == Tar_stringToBytes(<<48>>, 1)
        linkPathBytes == Tar_stringToBytes(<< >>, 100)
        sum == sumOfArrays(pathBytes \o modeBytes \o ownerBytes \o groupBytes
                           \o sizeBytes \o dateBytes
                           \o <<32, 32, 32, 32, 32, 32, 32, 32>>
                           \o linkBytes \o linkPathBytes)
        checksumStr == LastChars(Zeros(6) \o NumberToString(sum, 8), 6)
        checksumBytes == Tar_stringToBytes(checksumStr, 6) \o <<0, 32>>
    IN  pathBytes \o modeBytes \o ownerBytes \o groupBytes \o sizeBytes
        \o dateBytes \o checksumBytes \o linkBytes \o linkPathBytes
        \o [i \in 1..255 |-> 0]

\* The loop of _pack from file i on; times[i] is the clock reading of the
\* header of file i.  pad = 512 - (data.length % 512) is never 0, so a block
\* of padding follows every data array.
RECURSIVE Tar_packLoop(_, _, _, _)
Tar_packLoop(fs, times, i, acc) ==
    IF i > Len(fs) THEN acc
    ELSE LET data == fs[i].data
             header == getTarHeader(fs[i].path, Len(data), times[i])
             pad == 512 - (Len(data) % 512)
         IN  Tar_packLoop(fs, times, i + 1,
                          acc \o <<header, data>>
                          \o (IF pad > 0 THEN << [k \in 1..pad |-> 0] >> ELSE << >>))

\* _pack(options): the list of chunks.
Tar_pack(fs, times) == Tar_packLoop(fs, times, 1, << >>)
(***************************************************************************)
(* Inputs the builders are driven with.                                    *)
(***************************************************************************)
\* Paths: "a", "a/b", "//a//b/", "", the one-character path U+0161 (whose
\* low byte is that of "a") and the number 7.
PathInputs ==
    { JsString(<<97>>), JsString(<<97, 47, 98>>),
      JsString(<<47, 47, 97, 47, 47, 98, 47>>), JsString(<< >>),
      JsString(<<353>>), JsNumber(<<55>>) }

\* Data: a Uint8Array of three bytes, the string "hi", a plain object.
DataInputs ==
    { JsUint8Array(<<66, 66, 66>>), JsString(<<104, 105>>), JsObject }

\* Comments handed to toUint8Array(comment) of src/src/zip.js:
\* "c", undefined, the number 7.
CommentInputs == << JsString(<<99>>), JsUndefined, JsNumber(<<55>>) >>

\* A comment of 65536 characters "c" (one character doubled sixteen times).
RECURSIVE Doubled(_, _)
Doubled(s, n) == IF n = 0 THEN s ELSE Doubled(s \o s, n - 1)
LongComment == Doubled(<<99>>, 16)

\* Paths handed to addFile / addFolder of src/src/zip.js: the paths above and
\* a path of 256 characters "a".
ZipperPathInputs == PathInputs \cup { JsString(Doubled(<<97>>, 8)) }

\* Arguments handed to toUint8Array(options) of src/zip.js: undefined, the
\* string "c", { comment: "c" }, { comment: 7 } and { comment: LongComment }.
PackArg(t, v, comment) == [t |-> t, v |-> v, comment |-> comment]
PackInputs ==
    << PackArg("undefined", << >>, JsUndefined),
       PackArg("string", <<99>>, JsUndefined),
       PackArg("object", << >>, JsString(<<99>>)),
       PackArg("object", << >>, JsNumber(<<55>>)),
       PackArg("object", << >>, JsString(LongComment)) >>

(***************************************************************************)
(* Initial state and the actions of the two batch builders.                *)
(***************************************************************************)
streamVars == <<out, closed, totalBytes, streamCd, calls, finalised, taken>>
otherVars == <<files, input, result>>
vars == <<now, entries, parts, cd, last, packed, streamVars, otherVars>>

NoCall ==
    [op |-> "none", path |-> JsUndefined, threw |-> FALSE, registered |-> FALSE,
     ret |-> 0]
NoPack == [made |-> FALSE, arg |-> 0, ok |-> FALSE, bytes |-> << >>]
NoInput == [kind |-> "none"]
NoResult == [kind |-> "none"]

\* The three builders and the TAR builder after construction.
InitBuilders ==
    /\ now = 0
    /\ entries = << >>
    /\ parts = << >>
    /\ cd = << >>
    /\ last = NoCall
    /\ packed = NoPack
    /\ out = << >>
    /\ closed = FALSE
    /\ totalBytes = Wide(0)
    /\ streamCd = << >>
    /\ calls = << >>
    /\ finalised = "none"
    /\ taken = 0
    /\ files = << >>

Init ==
    /\ InitBuilders
    /\ input = NoInput
    /\ result = NoResult

\* Time passes.
Tick ==
    /\ now < MaxClock
    /\ now' = now + 1
    /\ UNCHANGED <<entries, parts, cd, last, packed, streamVars, otherVars>>

\* src/zip.js: zipper.addEntry(path, data).
AddEntry(path, data) ==
    /\ Len(entries) < MaxEntries
    /\ LET r == addEntry(entries, path, data)
       IN  /\ entries' = r.entries
           /\ last' = [op |-> "addEntry", path |-> JsUndefined, threw |-> r.threw,
                       registered |-> r.registered, ret |-> r.ret]
    /\ packed' = NoPack
    /\ UNCHANGED <<now, parts, cd, streamVars, otherVars>>

\* The clock readings of n successive calls of new Date(), the first at or
\* after tick t: the clock never runs backwards.
RECURSIVE ClockReadings(_, _)
ClockReadings(n, t) ==
    IF n = 0 THEN { << >> }
    ELSE UNION { { <<u>> \o rest : rest \in ClockReadings(n - 1, u) } : u \in t..MaxClock }

\* src/zip.js: zipper.toUint8Array(PackInputs[a]).
PackToUint8Array(a) ==
    /\ \E times \in ClockReadings(2 * Len(entries), now) :
         LET r == toUint8Array(entries, PackInputs[a], times)
         IN  /\ packed' = [made |-> TRUE, arg |-> a, ok |-> r.ok, bytes |-> r.bytes]
             /\ now' = IF r.ok /\ times # << >> THEN times[Len(times)] ELSE now
    /\ UNCHANGED <<entries, parts, cd, last, streamVars, otherVars>>

\* src/src/zip.js: zipper.addFile(path, data).
AddFile(path, data) ==
    /\ Len(cd) < MaxEntries
    /\ LET r == Zipper_addEntry(parts, cd, now, path, data, FALSE)
       IN  /\ parts' = r.parts
           /\ cd' = r.cd
           /\ last' = [op |-> "addFile", path |-> path, threw |-> r.threw,
                       registered |-> r.registered, ret |-> r.ret]
    /\ packed' = NoPack
    /\ UNCHANGED <<now, entries, streamVars, otherVars>>

\* src/src/zip.js: zipper.addFolder(path).
AddFolder(path) ==
    /\ Len(cd) < MaxEntries
    /\ LET r == Zipper_addEntry(parts, cd, now, path, JsNull, TRUE)
       IN  /\ parts' = r.parts
           /\ cd' = r.cd
           /\ last' = [op |-> "addFolder", path |-> path, threw |-> r.threw,
                       registered |-> r.registered, ret |-> r.ret]
    /\ packed' = NoPack
    /\ UNCHANGED <<now, entries, streamVars, otherVars>>

\* A faulty variant of Zipper_pop, which pops this._parts once instead of
\* twice: it tests that C1_OffsetsAreSums depends on what pop removes.
Zipper_popOnce(p, c) ==
    [parts |-> ArrayPop(p), cd |-> ArrayPop(c)]

\* A faulty variant of Zipper_pop, which removes the oldest entry instead of
\* the newest: it tests that C16_PopRemovesLastEntry sees which entry goes.
Zipper_popFirst(p, c) ==
    IF c = << >> THEN [parts |-> p, cd |-> c]
    ELSE [parts |-> Tail(Tail(p)), cd |-> Tail(c)]

\* The three pops of pop().
Zipper_pop(p, c) ==
    [parts |-> ArrayPop(ArrayPop(p)), cd |-> ArrayPop(c)]

\* src/src/zip.js: zipper.pop().
Pop ==
    /\ LET r == Zipper_pop(parts, cd)
       IN  /\ parts' = r.parts
           /\ cd' = r.cd
           /\ last' = [op |-> "pop", path |-> JsUndefined, threw |-> FALSE,
                       registered |-> FALSE,
                       ret |-> Len(r.cd)]
    /\ packed' = NoPack
    /\ UNCHANGED <<now, entries, streamVars, otherVars>>

\* src/src/zip.js: zipper.toUint8Array(CommentInputs[a]).
ZipperToUint8Array(a) ==
    /\ packed' = [made |-> TRUE, arg |-> a, ok |-> TRUE,
                  bytes |-> Zipper_toUint8Array(parts, cd, CommentInputs[a])]
    /\ UNCHANGED <<now, entries, parts, cd, last, streamVars, otherVars>>

\* The entry-list builder of src/zip.js.  It reads the clock only while it
\* packs, so the time that passes between two calls shows in the first clock
\* reading of the next pack.
NextA ==
    \/ \E path \in PathInputs, data \in DataInputs : AddEntry(path, data)
    \/ \E a \in 1..Len(PackInputs) : PackToUint8Array(a)

SpecA == Init /\ [][NextA]_vars

\* The parts / central directory builder of src/src/zip.js.
NextB ==
    \/ Tick
    \/ \E path \in ZipperPathInputs, data \in DataInputs : AddFile(path, data)
    \/ \E path \in ZipperPathInputs : AddFolder(path)
    \/ Pop
    \/ \E a \in 1..Len(CommentInputs) : ZipperToUint8Array(a)

SpecB == Init /\ [][NextB]_vars
(***************************************************************************)
(* Actions of the streaming builder.  An addStream invocation runs up to   *)
(* its first await when it is called and then one step per resolved        *)
(* await; invocations that are waiting may resume in any order.            *)
(***************************************************************************)
\* The 35 bytes 1, 2, ..., 35.
Bytes35 == [i \in 1..35 |-> i]

\* A chunk of 2^32 bytes; its elements are never read.
HugeChunk == [length |-> [hi |-> 65536, lo |-> 0], bytes |-> << >>]

\* Sources handed to addStream: an empty one, Bytes35 in chunks of 10, 20
\* and 5 bytes, Bytes35 in one chunk, and one byte followed by HugeChunk.
SourceInputs ==
    << << >>,
       << Chunk(SubSeq(Bytes35, 1, 10)), Chunk(SubSeq(Bytes35, 11, 30)),
          Chunk(SubSeq(Bytes35, 31, 35)) >>,
       << Chunk(Bytes35) >>,
       << Chunk(<<1>>), HugeChunk >> >>

\* Filenames handed to addStream: "a", "//" and the number 7.
StreamNameInputs == { JsString(<<97>>), JsString(<<47, 47>>), JsNumber(<<55>>) }

\* Comments handed to finalise(comment): "c" and the number 7.
StreamCommentInputs == << JsString(<<99>>), JsNumber(<<55>>) >>

\* this._enqueue(chunk), made by call k, on an open controller.
Enqueued(k, kind, chunk) == [call |-> k, kind |-> kind, chunk |-> chunk]

\* zipperStream.addStream(filename, SourceInputs[s]): the code up to the
\* first "await readStream.read()".
AddStream(filename, s) ==
    /\ Len(calls) < MaxCalls
    /\ LET k == Len(calls) + 1
           source == SourceInputs[s]
           name == stripTrailingSlash(stripLeadingSlash(collapseSlashes(filename.v)))
           header == Chunk(Stream_localHeader(name, DateAt(now)))
       IN  IF filename.t # "string" \/ Len(name) = 0 \/ closed
           THEN \* this._error is not a function / enqueue on a closed stream
                /\ calls' = Append(calls, FailedCall)
                /\ UNCHANGED <<out, totalBytes>>
           ELSE /\ out' = Append(out, Enqueued(k, "header", header))
                /\ totalBytes' = WideAdd(totalBytes, header.length)
                /\ calls' = Append(calls,
                       [pc |-> "read", filename |-> name, source |-> source,
                        received |-> << >>, offset |-> totalBytes,
                        date |-> DateAt(now), crc |-> -1,
                        fileLength |-> Wide(0), i |-> 0, reads |-> 0, ret |-> 0])
    /\ UNCHANGED <<now, entries, parts, cd, last, packed, otherVars, taken, closed, streamCd, finalised>>

\* The number of read() calls that have resolved so far.
RECURSIVE ReadsDone(_)
ReadsDone(cs) == IF cs = << >> THEN 0 ELSE Head(cs).reads + ReadsDone(Tail(cs))

\* A faulty variant of AfterLoop, which completes the entry whatever its
\* length: it tests that C13_OversizeAbandoned sees the Data Descriptor and
\* the Central Directory Header of an entry that is too long.
AfterLoopUnchecked(k, c) ==
    IF closed
    THEN /\ calls' = [calls EXCEPT ![k] = Rejected(c)]
         /\ UNCHANGED <<out, totalBytes, streamCd>>
    ELSE LET descriptor == Chunk(Stream_dataDescriptor(c.crc, c.fileLength))
         IN  /\ out' = Append(out, Enqueued(k, "descriptor", descriptor))
             /\ totalBytes' = WideAdd(totalBytes, descriptor.length)
             /\ streamCd' = Append(streamCd,
                    Stream_cdHeader(c.filename, c.date, c.crc, c.fileLength, c.offset))
             /\ calls' = [calls EXCEPT ![k] =
                    [c EXCEPT !.pc = "returned", !.ret = Len(streamCd) + 1]]

\* A faulty variant of AfterLoop, which puts the Data Descriptor in front of
\* everything enqueued so far: it tests that C10_EntryOrder sees the place of
\* the descriptor.
AfterLoopEarly(k, c) ==
    IF WideGt(c.fileLength, MaxUint32) \/ closed
    THEN /\ calls' = [calls EXCEPT ![k] = Rejected(c)]
         /\ UNCHANGED <<out, totalBytes, streamCd>>
    ELSE LET descriptor == Chunk(Stream_dataDescriptor(c.crc, c.fileLength))
         IN  /\ out' = << Enqueued(k, "descriptor", descriptor) >> \o out
             /\ totalBytes' = WideAdd(totalBytes, descriptor.length)
             /\ streamCd' = Append(streamCd,
                    Stream_cdHeader(c.filename, c.date, c.crc, c.fileLength, c.offset))
             /\ calls' = [calls EXCEPT ![k] =
                    [c EXCEPT !.pc = "returned", !.ret = Len(streamCd) + 1]]

\* The code of addStream after its while loop, for call k in state c.
AfterLoop(k, c) ==
    IF WideGt(c.fileLength, MaxUint32) \/ closed
    THEN \* this._error is not a function / enqueue on a closed stream
         /\ calls' = [calls EXCEPT ![k] = Rejected(c)]
         /\ UNCHANGED <<out, totalBytes, streamCd>>
    ELSE LET descriptor == Chunk(Stream_dataDescriptor(c.crc, c.fileLength))
         IN  /\ out' = Append(out, Enqueued(k, "descriptor", descriptor))
             /\ totalBytes' = WideAdd(totalBytes, descriptor.length)
             /\ streamCd' = Append(streamCd,
                    Stream_cdHeader(c.filename, c.date, c.crc, c.fileLength, c.offset))
             /\ calls' = [calls EXCEPT ![k] =
                    [c EXCEPT !.pc = "returned", !.ret = Len(streamCd) + 1]]

\* "await readStream.read()" of call k resolves: one turn of the while loop,
\* and the rest of the function when the source is done.
ReadResolve(k) ==
    /\ k \in 1..Len(calls)
    /\ calls[k].pc = "read"
    /\ ReadsDone(calls) < MaxReads
    /\ LET c == [calls[k] EXCEPT !.reads = @ + 1]
       IN  IF c.source = << >>
           THEN AfterLoop(k, c)
           ELSE
           LET value == Head(c.source)
               fileLength == WideAdd(c.fileLength, value.length)
               got == [c EXCEPT !.source = Tail(c.source),
                                !.received = Append(c.received, value),
                                !.fileLength = fileLength]
           IN  IF WideGt(fileLength, MaxUint32)
               THEN /\ calls' = [calls EXCEPT ![k] = [got EXCEPT !.pc = "cancel"]]
                    /\ UNCHANGED <<out, totalBytes, streamCd>>
               ELSE IF closed
               THEN /\ calls' = [calls EXCEPT ![k] = Rejected(got)]
                    /\ UNCHANGED <<out, totalBytes, streamCd>>
               ELSE LET sum == maintainChecksum([crc |-> c.crc, i |-> c.i], fileLength, value)
                    IN  /\ out' = Append(out, Enqueued(k, "data", value))
                        /\ totalBytes' = WideAdd(totalBytes, value.length)
                        /\ calls' = [calls EXCEPT ![k] =
                               [got EXCEPT !.crc = sum.crc, !.i = sum.i]]
                        /\ UNCHANGED streamCd
    /\ UNCHANGED <<now, entries, parts, cd, last, packed, otherVars, taken, closed, finalised>>

\* "await readStream.cancel()" of call k resolves: break, then the rest of
\* the function.
CancelResolve(k) ==
    /\ k \in 1..Len(calls)
    /\ calls[k].pc = "cancel"
    /\ AfterLoop(k, [calls[k] EXCEPT !.source = << >>])
    /\ UNCHANGED <<now, entries, parts, cd, last, packed, otherVars, taken, closed, finalised>>

\* A faulty variant of FinaliseChunks, which enqueues the EOCD before the
\* Central Directory Headers: it tests that C12_FinaliseOrder sees the order.
FinaliseChunksEocdFirst(cdList, cdOffset, commentArg) ==
    << Enqueued(0, "eocd",
           Chunk(Stream_eocd(Len(cdList), totalLength(cdList), cdOffset,
                             commentArg))) >>
    \o [j \in 1..Len(cdList) |-> Enqueued(0, "cd", Chunk(cdList[j]))]

\* The chunks finalise enqueues: every Central Directory Header, then the EOCD.
FinaliseChunks(cdList, cdOffset, commentArg) ==
    [j \in 1..Len(cdList) |-> Enqueued(0, "cd", Chunk(cdList[j]))]
    \o << Enqueued(0, "eocd",
              Chunk(Stream_eocd(Len(cdList), totalLength(cdList), cdOffset,
                                commentArg))) >>

\* zipperStream.finalise(StreamCommentInputs[a]).
Finalise(a) ==
    /\ IF closed
       THEN \* enqueue on a closed stream throws
            /\ finalised' = "rejected"
            /\ UNCHANGED <<out, totalBytes, closed>>
       ELSE LET chunks == FinaliseChunks(streamCd, totalBytes, StreamCommentInputs[a])
            IN  /\ out' = out \o chunks
                /\ totalBytes' = WideAdd(totalBytes,
                       Wide(totalLength([j \in 1..Len(chunks) |-> chunks[j].chunk.bytes])))
                /\ closed' = TRUE
                /\ finalised' = "done"
    /\ UNCHANGED <<now, entries, parts, cd, last, packed, otherVars, taken, streamCd, calls>>

\* The streaming builder of src/unnamed/part_001, with the clock standing
\* still.
NextS ==
    \/ \E filename \in StreamNameInputs, s \in 1..Len(SourceInputs) :
           AddStream(filename, s)
    \/ \E k \in 1..MaxCalls : ReadResolve(k)
    \/ \E k \in 1..MaxCalls : CancelResolve(k)
    \/ \E a \in 1..Len(StreamCommentInputs) : Finalise(a)

SpecS == Init /\ [][NextS]_vars

\* All three builders, each driven on its own object.
Next == NextA \/ NextB \/ NextS

Spec == Init /\ [][Next]_vars

(***************************************************************************)
(* The consumer of this.readable (getReader().read() or pipeTo): it takes  *)
(* the enqueued chunks one at a time, whenever it wants.  Nothing in       *)
(* ZipperStream waits for it: controller.enqueue queues the chunk and      *)
(* returns.                                                                *)
(***************************************************************************)
SinkTake ==
    /\ taken < Len(out)
    /\ taken' = taken + 1
    /\ UNCHANGED <<now, entries, parts, cd, last, packed, otherVars,
                   out, closed, totalBytes, streamCd, calls, finalised>>

\* The streaming builder together with the consumer of its output.
NextSink ==
    \/ NextS
    \/ SinkTake

SpecSink == Init /\ [][NextSink]_vars

(***************************************************************************)
(* Calls of single functions of the codec.  The argument is chosen when    *)
(* the behaviour starts; every call stores what the function returned.     *)
(***************************************************************************)
\* Everything but the argument and the results stays as constructed.
buildersUnchanged ==
    UNCHANGED <<now, entries, parts, cd, last, packed, streamVars, files>>

\* Byte arrays handed to bytesToCrc32: the empty array, every single byte,
\* all pairs of the bytes 0, 1, 127, 128 and 255, the ASCII bytes of
\* "123456789", three bytes 66 and the 35 bytes 1..35.
CrcInputs ==
    { << >>, <<49, 50, 51, 52, 53, 54, 55, 56, 57>>, <<66, 66, 66>>, Bytes35 }
    \cup { <<b>> : b \in 0..255 }
    \cup { <<a, b>> : a, b \in {0, 1, 127, 128, 255} }

InitCrc ==
    /\ InitBuilders
    /\ input \in { [kind |-> "bytes", v |-> b] : b \in CrcInputs }
    /\ result = [kind |-> "crc", hex |-> << >>, dec |-> << >>]

\* src/zip.js: bytesToCrc32(input).
CallBytesToCrc32 ==
    /\ input.kind = "bytes"
    /\ result' = [result EXCEPT !.hex = << bytesToCrc32(input.v) >>]
    /\ UNCHANGED input
    /\ buildersUnchanged

\* src/src/zip.js: Zipper.bytesToCrc32(input).
CallZipperBytesToCrc32 ==
    /\ input.kind = "bytes"
    /\ result' = [result EXCEPT !.dec = << Zipper_bytesToCrc32(input.v) >>]
    /\ UNCHANGED input
    /\ buildersUnchanged

NextCrc ==
    \/ CallBytesToCrc32
    \/ CallZipperBytesToCrc32

SpecCrc == InitCrc /\ [][NextCrc]_vars

\* Numbers of entries this._entries can hold when _pack runs: addEntry
\* (src/zip.js:19-84) checks the path and the data of the new entry and not
\* the number of entries already stored.
EntryCounts == (0..60) \cup {255, 256, 65534, 65535, 65536, 65537}

\* What _pack hands to getEOCDHeader for n entries with paths of three
\* characters and empty data: a Local File Header is then 33 bytes long and a
\* Central Directory Header 49 bytes.
EocdInputs ==
    { [kind |-> "eocd", numEntries |-> n, cdSize |-> 49 * n, cdOffset |-> 33 * n] :
          n \in EntryCounts }

InitEocd ==
    /\ InitBuilders
    /\ input \in EocdInputs
    /\ result = NoResult

\* src/zip.js: getEOCDHeader({entries, cdSize, cdOffset, comment: ''}), as
\* _pack calls it.
CallGetEOCDHeader ==
    /\ input.kind = "eocd"
    /\ result' = [kind |-> "eocd",
                  bytes |-> getEOCDHeader(input.numEntries, input.cdSize,
                                          input.cdOffset, << >>)]
    /\ UNCHANGED input
    /\ buildersUnchanged

NextEocd == CallGetEOCDHeader

SpecEocd == InitEocd /\ [][NextEocd]_vars

\* Date objects handed to dateToBytes / timeToBytes: every day of the years
\* 1980..2107 at 10:29:58, and every second of the 6th of November 2026.
CalendarInputs ==
    { [year |-> y, month |-> m, date |-> d,
       hours |-> 10, minutes |-> 29, seconds |-> 58] :
          y \in 1980..2107, m \in 0..11, d \in 1..31 }
ClockInputs ==
    { [year |-> 2026, month |-> 10, date |-> 6,
       hours |-> h, minutes |-> m, seconds |-> s] :
          h \in 0..23, m \in 0..59, s \in 0..59 }

InitDate ==
    /\ InitBuilders
    /\ input \in { [kind |-> "Date", v |-> x] :
                       x \in { c \in CalendarInputs :
                                   c.date <= DaysInMonth(c.year, c.month) }
                             \cup ClockInputs }
    /\ result = [kind |-> "Date", date |-> << >>, time |-> << >>]

\* src/src/zip.js: Zipper.bytesToDate(Zipper.dateToBytes(input)).
CallDateRoundTrip ==
    /\ input.kind = "Date"
    /\ result' = [result EXCEPT
                      !.date = << Zipper_bytesToDate(Zipper_dateToBytes(input.v)) >>]
    /\ UNCHANGED input
    /\ buildersUnchanged

\* src/src/zip.js: Zipper.bytesToTime(Zipper.timeToBytes(input)).
CallTimeRoundTrip ==
    /\ input.kind = "Date"
    /\ result' = [result EXCEPT
                      !.time = << Zipper_bytesToTime(Zipper_timeToBytes(input.v)) >>]
    /\ UNCHANGED input
    /\ buildersUnchanged

NextDate ==
    \/ CallDateRoundTrip
    \/ CallTimeRoundTrip

SpecDate == InitDate /\ [][NextDate]_vars

\* Path strings handed to the first add of a fresh builder: every string of
\* up to MaxPathLen characters out of "a", "/", " " and the control
\* character \x01.
PathStrings ==
    UNION { [1..n -> {97, 47, 32, 1}] : n \in 0..MaxPathLen }

InitPath ==
    /\ InitBuilders
    /\ input \in { [kind |-> "path", v |-> s] : s \in PathStrings }
    /\ result = [kind |-> "path", zip |-> << >>, zipper |-> << >>]

\* src/zip.js: new Zipper().addEntry(input, new Uint8Array([66, 66, 66])).
CallAddEntry ==
    /\ input.kind = "path"
    /\ result' = [result EXCEPT
                      !.zip = << addEntry(<< >>, JsString(input.v),
                                          JsUint8Array(<<66, 66, 66>>)) >>]
    /\ UNCHANGED input
    /\ buildersUnchanged

\* src/src/zip.js: new Zipper().addFile(input, new Uint8Array([66, 66, 66])).
CallZipperAddFile ==
    /\ input.kind = "path"
    /\ result' = [result EXCEPT
                      !.zipper = << Zipper_addEntry(<< >>, << >>, now,
                                                    JsString(input.v),
                                                    JsUint8Array(<<66, 66, 66>>),
                                                    FALSE) >>]
    /\ UNCHANGED input
    /\ buildersUnchanged

NextPath ==
    \/ CallAddEntry
    \/ CallZipperAddFile

SpecPath == InitPath /\ [][NextPath]_vars

(***************************************************************************)
(* src/tar.js: the calls of the TAR builder.                               *)
(***************************************************************************)
\* Paths handed to addFile: "a", "a/b", "".
TarPathInputs == { <<97>>, <<97, 47, 98>>, << >> }

\* Data handed to addFile: Uint8Arrays of 3, 0 and 512 bytes.
TarDataInputs == { <<66, 66, 66>>, << >>, Doubled(<<66>>, 9) }

\* A call of the TAR builder that threw before it returned.
TarThrew(op) ==
    [made |-> TRUE, arg |-> 0, ok |-> FALSE, bytes |-> << >>, op |-> op,
     chunks |-> << >>]

\* src/tar.js: zipper.addFile(path, data); nothing is validated.
TarAddFile(path, data) ==
    /\ Len(files) < MaxEntries
    /\ files' = Append(files, [path |-> path, data |-> data])
    /\ last' = [op |-> "addFile", path |-> JsString(path), threw |-> FALSE,
                registered |-> TRUE, ret |-> Len(files) + 1]
    /\ packed' = NoPack
    /\ UNCHANGED <<now, entries, parts, cd, streamVars, input, result>>

\* src/tar.js: zipper._pack(), the method the class defines.
TarPack ==
    /\ \E times \in ClockReadings(Len(files), now) :
         /\ packed' = [made |-> TRUE, arg |-> 0, ok |-> TRUE, bytes |-> << >>,
                       op |-> "_pack", chunks |-> Tar_pack(files, times)]
         /\ now' = IF times # << >> THEN times[Len(times)] ELSE now
    /\ UNCHANGED <<entries, parts, cd, last, streamVars, otherVars>>

\* src/tar.js: zipper.toUint8Array().  this._packTar is not defined anywhere,
\* so calling it throws a TypeError before concatArrays runs.
TarToUint8Array ==
    /\ packed' = TarThrew("toUint8Array")
    /\ UNCHANGED <<now, entries, parts, cd, last, streamVars, otherVars>>

\* src/tar.js: zipper.toBlob().  The same call of this._packTar throws.
TarToBlob ==
    /\ packed' = TarThrew("toBlob")
    /\ UNCHANGED <<now, entries, parts, cd, last, streamVars, otherVars>>

NextT ==
    \/ \E path \in TarPathInputs, data \in TarDataInputs : TarAddFile(path, data)
    \/ TarPack
    \/ TarToUint8Array
    \/ TarToBlob

SpecT == Init /\ [][NextT]_vars

\* Arguments of getTarHeader({path, size}): the paths "a", "" and 128
\* characters "a", and the sizes 0..70, 511, 512 and 4096.
TarHeaderInputs ==
    { [kind |-> "tarHeader", path |-> p, size |-> n] :
          p \in { <<97>>, << >>, Doubled(<<97>>, 7) },
          n \in (0..70) \cup {511, 512, 4096} }

InitTarHeader ==
    /\ InitBuilders
    /\ input \in TarHeaderInputs
    /\ result = NoResult

\* src/tar.js: getTarHeader({path: input.path, size: input.size}).
CallGetTarHeader ==
    /\ input.kind = "tarHeader"
    /\ result' = [kind |-> "tarHeader",
                  bytes |-> getTarHeader(input.path, input.size, now)]
    /\ UNCHANGED input
    /\ buildersUnchanged

NextTarHeader == CallGetTarHeader

SpecTarHeader == InitTarHeader /\ [][NextTarHeader]_vars
(***************************************************************************)
(* Properties.  The fields of the produced bytes are read back here by     *)
(* their place in the ZIP format, independently of the encoders above.     *)
(***************************************************************************)
\* The little-endian number in the n bytes of b that start at index at.
RECURSIVE FieldLE(_, _, _)
FieldLE(b, at, n) ==
    IF n = 0 THEN 0 ELSE b[at] + 256 * FieldLE(b, at + 1, n - 1)

\* The sum of the lengths of the first n byte arrays of list.
RECURSIVE SumOfLengths(_, _)
SumOfLengths(list, n) ==
    IF n = 0 THEN 0 ELSE SumOfLengths(list, n - 1) + Len(list[n])

\* The filename bytes stored in a Central Directory Header.
StoredName(header) == SubSeq(header, 47, 46 + FieldLE(header, 29, 2))

\* The latest call was an addFile or addFolder.
LastWasAdd == last.op \in {"addFile", "addFolder"}

(***************************************************************************)
(* src/src/zip.js: addFile / addFolder / pop / toUint8Array.               *)
(***************************************************************************)
\* C1: after any sequence of addFile / addFolder / pop calls, this._parts
\* holds one Local File Header and one data array per entry, and the
\* local-header-offset field (bytes 42..45) of the i-th Central Directory
\* Header is the sum of the lengths of the Local File Headers and data of
\* the entries before it; the first offset is 0.
C1_OffsetsAreSums ==
    /\ Len(parts) = 2 * Len(cd)
    /\ \A i \in 1..Len(cd) :
           FieldLE(cd[i], 43, 4) = SumOfLengths(parts, 2 * (i - 1))

\* C1 witness: a second entry has been added behind a first one, and its
\* offset field is not 0.
C1_SecondEntryAdded ==
    /\ LastWasAdd /\ last.registered
    /\ Len(cd) = 2
    /\ FieldLE(cd[1], 43, 4) = 0
    /\ FieldLE(cd[2], 43, 4) > 30

\* C2: no two entries of the archive have the same stored filename bytes.
C2_StoredNamesUnique ==
    \A i, j \in 1..Len(cd) : i # j => StoredName(cd[i]) # StoredName(cd[j])

\* C2 witness: a successful add has stored filename bytes the archive
\* already held.
C2_DuplicateStored ==
    /\ LastWasAdd /\ last.registered
    /\ Len(cd) = 2
    /\ StoredName(cd[1]) = StoredName(cd[2])

\* Entry i is a file when its stored name does not end in '/'.
IsFileEntry(i) ==
    LET name == StoredName(cd[i]) IN name # << >> /\ name[Len(name)] # Slash

\* str begins with prefix.
BeginsWith(str, prefix) ==
    Len(str) >= Len(prefix) /\ SubSeq(str, 1, Len(prefix)) = prefix

\* C3: no file entry's path, followed by '/', begins the path of another
\* entry: a file is neither a folder of the archive nor a parent folder
\* of another entry.  (Equal paths are the subject of C2.)
C3_NoFileFolderCollision ==
    \A i, j \in 1..Len(cd) :
        i # j /\ IsFileEntry(i) =>
            ~BeginsWith(StoredName(cd[j]), StoredName(cd[i]) \o <<Slash>>)

\* C3 witness: the file "a" and an entry below the folder "a/" are both
\* registered.
C3_FileAndFolderCoexist ==
    /\ LastWasAdd /\ last.registered
    /\ \E i, j \in 1..Len(cd) :
           /\ StoredName(cd[i]) = <<97>>
           /\ BeginsWith(StoredName(cd[j]), <<97, Slash>>)

\* C4: a step that ends with the latest addFile / addFolder having stored
\* nothing leaves this._parts and this._cd as they were, and with them the
\* entry count and the bytes of a materialization with any comment.
C4_FailedAddChangesNothing ==
    [][ (last'.op \in {"addFile", "addFolder"} /\ ~last'.registered) =>
            /\ parts' = parts
            /\ cd' = cd
            /\ last'.ret = Len(cd)
            /\ \A a \in 1..Len(CommentInputs) :
                   Zipper_toUint8Array(parts', cd', CommentInputs[a])
                       = Zipper_toUint8Array(parts, cd, CommentInputs[a]) ]_vars

\* C4 witness: an add has failed on an archive that holds an entry.
C4_FailedAddOnEntries ==
    /\ LastWasAdd /\ ~last.registered
    /\ Len(cd) = 1

\* C5: an addFile / addFolder call that stores nothing signals an error to
\* its caller.
C5_FailedAddSignalsError ==
    (LastWasAdd /\ ~last.registered) => last.threw

\* C5 witness: an add has stored nothing and returned the entry count.
C5_SilentSkip ==
    /\ LastWasAdd /\ ~last.registered /\ ~last.threw
    /\ last.ret = Len(cd)

\* C6: the EOCD of a materialization follows the entries region and the
\* Central Directory; both of its count fields are the number of entries,
\* its size field is the total length of the Central Directory Headers, its
\* offset field the total length of the entries region, and offset + size
\* + 22 + comment length is the length of the output.
C6_EOCDFields ==
    packed.made =>
        LET b == packed.bytes
            region == SumOfLengths(parts, Len(parts))
            cdLength == SumOfLengths(cd, Len(cd))
            at == region + cdLength
        IN  /\ packed.ok
            /\ Len(b) >= at + 22
            /\ SubSeq(b, at + 1, at + 4) = <<80, 75, 5, 6>>
            /\ FieldLE(b, at + 9, 2) = Len(cd)
            /\ FieldLE(b, at + 11, 2) = Len(cd)
            /\ FieldLE(b, at + 13, 4) = cdLength
            /\ FieldLE(b, at + 17, 4) = region
            /\ FieldLE(b, at + 17, 4) + FieldLE(b, at + 13, 4) + 22
                   + FieldLE(b, at + 21, 2) = Len(b)

\* C6 witness: a materialization of the one entry left after a pop.
C6_PackedAfterPop ==
    /\ packed.made
    /\ last.op = "pop"
    /\ Len(cd) = 1

(***************************************************************************)
(* src/zip.js: toUint8Array.                                               *)
(***************************************************************************)
\* The comment a toUint8Array argument asks for: the argument itself when it
\* is a string, as in toUint8Array('my comments'), else the comment property
\* of the options object.
RequestedComment(arg) ==
    IF arg.t = "string" THEN JsString(arg.v) ELSE arg.comment

\* The comment that is to be written for it: empty when it is not a string,
\* its first 65535 characters when it is longer.
ExpectedComment(arg) ==
    LET c == RequestedComment(arg)
    IN  IF c.t # "string" THEN << >>
        ELSE IF Len(c.v) > MaxUint16 THEN SubSeq(c.v, 1, MaxUint16)
        ELSE c.v

\* C7: every materialization succeeds, and its output ends with an EOCD
\* whose comment-length field is the length of the expected comment (the
\* string given, cut to 65535 characters; empty for a non-string), followed
\* by the bytes of that comment.
C7_CommentWritten ==
    packed.made =>
        /\ packed.ok
        /\ LET b == packed.bytes
               comment == ExpectedComment(PackInputs[packed.arg])
               at == Len(b) - Len(comment) - 2
           IN  /\ at >= 20
               /\ SubSeq(b, at - 19, at - 16) = <<80, 75, 5, 6>>
               /\ FieldLE(b, at + 1, 2) = Len(comment)
               /\ SubSeq(b, at + 3, Len(b)) = comment

\* C7 witness: toUint8Array was called with a string and returned an archive
\* that ends with an EOCD of 22 bytes, its comment-length field 0.
C7_StringCommentDropped ==
    /\ packed.made /\ packed.ok
    /\ PackInputs[packed.arg].t = "string"
    /\ Len(packed.bytes) >= 22
    /\ SubSeq(packed.bytes, Len(packed.bytes) - 21, Len(packed.bytes) - 18)
           = <<80, 75, 5, 6>>
    /\ SubSeq(packed.bytes, Len(packed.bytes) - 1, Len(packed.bytes)) = <<0, 0>>

\* C8: a materialization leaves the entries as they are, and one that
\* follows another with the same argument, no addEntry in between, has the
\* same outcome and returns the same bytes.
C8_RepeatableMaterialization ==
    [][ /\ packed'.made => entries' = entries
        /\ (packed.made /\ packed'.made /\ packed'.arg = packed.arg) =>
               packed' = packed ]_vars

\* C8 witness: a materialization of a non-empty entry set has written the
\* time of a later clock reading into its first Local File Header.
C8_PackedLater ==
    /\ packed.made /\ packed.ok
    /\ entries # << >>
    /\ SubSeq(packed.bytes, 11, 14) = dateToBytes(DateAt(MaxClock))

(***************************************************************************)
(* src/unnamed/part_001: addStream.                                        *)
(***************************************************************************)
\* What addStream call k has enqueued, in order.
ItemsOf(k) == SelectSeq(out, LAMBDA e : e.call = k)

\* The bytes of a list of chunks, one after the other.
RECURSIVE Flatten(_)
Flatten(chunks) ==
    IF chunks = << >> THEN << >> ELSE Head(chunks).bytes \o Flatten(Tail(chunks))

\* The four little-endian bytes of a wide number.
WideLE(w) == << w.lo % 256, w.lo \div 256, w.hi % 256, w.hi \div 256 >>

\* The Data Descriptor call k has enqueued (its last chunk once it returned).
DescriptorOf(k) == ItemsOf(k)[Len(ItemsOf(k))].chunk.bytes

\* C9: for every addStream call that has returned, the CRC field of its Data
\* Descriptor and of its Central Directory Header is the CRC-32 of all bytes
\* received from the source, one chunk after the other, and the size fields
\* are the number of those bytes, however the bytes were cut into chunks.
C9_DescriptorMatchesSource ==
    \A k \in 1..Len(calls) :
        calls[k].pc = "returned" =>
            LET data == Flatten(calls[k].received)
                crc == WideLE(bytesToCrc32(data))
                d == DescriptorOf(k)
                h == streamCd[calls[k].ret]
            IN  /\ SubSeq(d, 5, 8) = crc
                /\ FieldLE(d, 9, 4) = Len(data)
                /\ FieldLE(d, 13, 4) = Len(data)
                /\ SubSeq(h, 17, 20) = crc
                /\ FieldLE(h, 21, 4) = Len(data)
                /\ FieldLE(h, 25, 4) = Len(data)

\* C9 witness: a call whose source delivered 35 bytes in three chunks has
\* returned with the size 35 and a CRC that is not the CRC-32 of the bytes.
C9_ThreeChunksWrongCrc ==
    \E k \in 1..Len(calls) :
        /\ calls[k].pc = "returned"
        /\ Len(calls[k].received) = 3
        /\ Flatten(calls[k].received) = Bytes35
        /\ FieldLE(DescriptorOf(k), 9, 4) = 35
        /\ SubSeq(DescriptorOf(k), 5, 8) # WideLE(bytesToCrc32(Bytes35))

\* C10: what an addStream call that has returned has enqueued is its Local
\* File Header, then every chunk its source delivered, once, unmodified and
\* in the order received, then its Data Descriptor.
C10_EntryOrder ==
    \A k \in 1..Len(calls) :
        calls[k].pc = "returned" =>
            LET items == ItemsOf(k)
                received == calls[k].received
                n == Len(received)
            IN  /\ calls[k].source = << >>
                /\ Len(items) = n + 2
                /\ items[1].kind = "header"
                /\ SubSeq(items[1].chunk.bytes, 1, 4) = <<80, 75, 3, 4>>
                /\ \A j \in 1..n :
                       /\ items[j + 1].kind = "data"
                       /\ items[j + 1].chunk = received[j]
                /\ items[n + 2].kind = "descriptor"
                /\ SubSeq(items[n + 2].chunk.bytes, 1, 4) = <<80, 75, 7, 8>>

\* C10 witness: a call that received three chunks has returned, and a chunk
\* of another call lies between two of its own in the output.
C10_InterleavedEntryDone ==
    \E k \in 1..Len(calls) :
        /\ calls[k].pc = "returned"
        /\ Len(calls[k].received) = 3
        /\ \E p, q, r \in 1..Len(out) :
               /\ p < q /\ q < r
               /\ out[p].call = k /\ out[q].call # k /\ out[r].call = k

\* C11: while an addStream call is still reading its source, no call made
\* after it has put anything (its Local File Header or data) in the output.
C11_EntriesSerialized ==
    \A j, k \in 1..Len(calls) :
        (j < k /\ calls[j].pc = "read") => ItemsOf(k) = << >>

\* C11 witness: the Local File Header of the second call lies in the output
\* between the Local File Header and the Data Descriptor of the first.
C11_HeaderInsideEarlierEntry ==
    \E p, q, r \in 1..Len(out) :
        /\ p < q /\ q < r
        /\ out[p].call = 1 /\ out[p].kind = "header"
        /\ out[q].call = 2 /\ out[q].kind = "header"
        /\ out[r].call = 1 /\ out[r].kind = "descriptor"

\* The addStream calls that have returned.
Completed == { k \in 1..Len(calls) : calls[k].pc = "returned" }

\* The Data Descriptors in the output, in the order they were enqueued.
Descriptors == SelectSeq(out, LAMBDA e : e.kind = "descriptor")

\* C12: before finalise the output holds no Central Directory Header and no
\* EOCD.  Once finalise has closed the output, the output is, from then on,
\* what addStream calls had enqueued, then one Central Directory Header per
\* completed entry in the order the entries completed, then the EOCD, whose
\* two count fields are the number of completed entries; nothing follows
\* the EOCD.
C12_FinaliseOrder ==
    LET n == Len(out)
        m == Len(streamCd)
    IN  /\ ~closed => \A p \in 1..n : out[p].kind \notin {"cd", "eocd"}
        /\ closed =>
               /\ n >= m + 1
               /\ \A p \in 1..(n - m - 1) :
                      out[p].kind \in {"header", "data", "descriptor"}
               /\ \A j \in 1..m :
                      /\ out[n - m - 1 + j].kind = "cd"
                      /\ out[n - m - 1 + j].chunk.bytes = streamCd[j]
                      /\ SubSeq(streamCd[j], 1, 4) = <<80, 75, 1, 2>>
               /\ out[n].kind = "eocd"
               /\ SubSeq(out[n].chunk.bytes, 1, 4) = <<80, 75, 5, 6>>
               /\ FieldLE(out[n].chunk.bytes, 9, 2) = Cardinality(Completed)
               /\ FieldLE(out[n].chunk.bytes, 11, 2) = Cardinality(Completed)
        /\ m = Cardinality(Completed)
        /\ Len(Descriptors) = m
        /\ \A j \in 1..m :
               LET c == calls[Descriptors[j].call]
               IN  /\ c.pc = "returned" /\ c.ret = j
                   /\ StoredName(streamCd[j]) = c.filename

\* C12 witness: finalise has closed the output after an entry completed,
\* and an addStream call that still had chunks to deliver has been cut off.
C12_ClosedWithCallCutOff ==
    /\ closed
    /\ Len(streamCd) >= 1
    /\ \E k \in 1..Len(calls) :
           /\ calls[k].pc = "rejected"
           /\ calls[k].source # << >>
           /\ ~WideGt(calls[k].fileLength, MaxUint32)

\* The running length of call c has passed 4,294,967,295.
Oversize(c) == WideGt(c.fileLength, MaxUint32)

Unaccepted(k) ==
    { p \in (taken + 1)..Len(out) : out[p].call = k /\ out[p].kind = "data" }

\* C14: at no time is more than one forwarded chunk of an entry waiting in
\* the output for the consumer to take it.
C14_OneChunkInFlight ==
    \A k \in 1..Len(calls) : Cardinality(Unaccepted(k)) <= 1

\* C14 witness: the consumer has taken nothing, and a call has read its
\* source to the end and forwarded all three chunks of it.
C14_AllForwardedNoneTaken ==
    /\ taken = 0
    /\ \E k \in 1..Len(calls) :
           /\ calls[k].pc = "returned"
           /\ Cardinality(Unaccepted(k)) = 3

(***************************************************************************)
(* bytesToCrc32.                                                           *)
(***************************************************************************)
\* x >>> 1 of a signed 32-bit x.
Ushr1(x) ==
    IF x >= 0 THEN x \div 2 ELSE ((x \div 2) + 1073741824) + 1073741824

\* The reflected CRC-32 register after n more bit steps: a step shifts the
\* register right by one and, when the bit shifted out is 1, xors the
\* polynomial 0xEDB88320 (-306674912 as a signed 32-bit number) into it.
RECURSIVE ReferenceBits(_, _)
ReferenceBits(reg, n) ==
    IF n = 0 THEN reg
    ELSE LET next == IF reg % 2 = 1 THEN Xor(Ushr1(reg), 0 - 306674912)
                     ELSE Ushr1(reg)
         IN  ReferenceBits(next, n - 1)

\* The register after the bytes from index st.i on, st = [reg, i].
RECURSIVE ReferenceBytes(_, _)
ReferenceBytes(st, bytes) ==
    IF st.i > Len(bytes) THEN st.reg
    ELSE ReferenceBytes([reg |-> ReferenceBits(Xor(st.reg, bytes[st.i]), 8),
                         i |-> st.i + 1],
                        bytes)

\* The standard CRC-32, bit by bit: register all ones at the start,
\* complemented at the end, as an unsigned 32-bit (wide) number.
ReferenceCrc32(bytes) ==
    ToUint32((-1) - ReferenceBytes([reg |-> -1, i |-> 1], bytes))

\* C15: whatever bytesToCrc32 of src/zip.js or Zipper.bytesToCrc32 of
\* src/src/zip.js returns for a byte array is the standard reflected CRC-32
\* of it, an unsigned 32-bit number: 0 for the empty array, 0xCBF43926 for
\* the ASCII bytes of "123456789"; the two functions agree.
C15_CrcIsStandard ==
    result.kind = "crc" =>
        /\ \A r \in {result.hex, result.dec} :
               r # << >> =>
                   /\ r[1].hi \in 0..65535 /\ r[1].lo \in 0..65535
                   /\ r[1] = ReferenceCrc32(input.v)
                   /\ input.v = << >> => r[1] = [hi |-> 0, lo |-> 0]
                   /\ input.v = <<49, 50, 51, 52, 53, 54, 55, 56, 57>> =>
                          r[1] = [hi |-> 52212, lo |-> 14630]
        /\ (result.hex # << >> /\ result.dec # << >>) => result.hex = result.dec

\* C15 witness: both functions have been called on the ASCII bytes of
\* "123456789" and have returned 0xCBF43926.
C15_CheckValueReturned ==
    /\ result.kind = "crc"
    /\ input.v = <<49, 50, 51, 52, 53, 54, 55, 56, 57>>
    /\ result.hex = << [hi |-> 52212, lo |-> 14630] >>
    /\ result.dec = << [hi |-> 52212, lo |-> 14630] >>

(***************************************************************************)
(* src/src/zip.js: pop.                                                    *)
(***************************************************************************)
\* The step is a call of pop(): it records a pop, reads no clock and leaves
\* no materialization behind.
PopStep == last'.op = "pop" /\ now' = now /\ ~packed'.made

\* Some addFile or addFolder call on the builder state (p, c) registers an
\* entry and leaves the builder in the state (p2, c2).
AddLeadsTo(p, c, p2, c2) ==
    \E t \in 0..MaxClock, path \in PathInputs, isFolder \in BOOLEAN :
        \E data \in (IF isFolder THEN {JsNull} ELSE DataInputs) :
            LET r == Zipper_addEntry(p, c, t, path, data, isFolder)
            IN  r.registered /\ r.parts = p2 /\ r.cd = c2 /\ r.ret = Len(c2)

\* C16: pop() removes the last Central Directory Header of this._cd and the
\* last two arrays of this._parts (the Local File Header and the data of
\* the same entry) and returns the new count; the earlier headers and parts
\* stay as they were, in their order, two parts per header; an add of the
\* popped path is accepted again and restores the state before the pop; on
\* an empty builder pop() changes nothing and returns 0.
C16_PopRemovesLastEntry ==
    [][PopStep =>
          /\ Len(parts) = 2 * Len(cd)
          /\ Len(parts') = 2 * Len(cd')
          /\ last'.ret = Len(cd') /\ ~last'.threw
          /\ IF cd = << >>
             THEN parts' = parts /\ cd' = cd /\ last'.ret = 0
             ELSE /\ cd' = SubSeq(cd, 1, Len(cd) - 1)
                  /\ parts' = SubSeq(parts, 1, Len(parts) - 2)
                  /\ last'.ret = Len(cd) - 1
                  /\ \A i \in 1..Len(cd') :
                         /\ cd'[i] = cd[i]
                         /\ parts'[2 * i - 1] = parts[2 * i - 1]
                         /\ parts'[2 * i] = parts[2 * i]
                  /\ AddLeadsTo(parts', cd', parts, cd)
    ]_vars

\* C16 witness: pop() has removed the second of two entries and has
\* returned 1; the first entry, "a", is still there, at offset 0.
C16_PoppedSecondOfTwo ==
    /\ last.op = "pop" /\ last.ret = 1 /\ ~packed.made
    /\ Len(cd) = 1 /\ Len(parts) = 2
    /\ StoredName(cd[1]) = <<97>>
    /\ FieldLE(cd[1], 43, 4) = 0

(***************************************************************************)
(* src/src/zip.js: the length of the path.                                 *)
(***************************************************************************)
\* The filename _addEntry derives from a string path: runs of '/' collapsed,
\* one leading and one trailing '/' dropped, a '/' appended for a folder.
ZipperNormalized(path, isFolder) ==
    LET trimmed == stripTrailingSlash(stripLeadingSlash(collapseSlashes(path.v)))
    IN  IF isFolder /\ trimmed # << >> /\ trimmed[Len(trimmed)] # Slash
        THEN trimmed \o <<Slash>> ELSE trimmed

\* The checks of _addEntry other than the length of the path pass on the
\* current builder: the data converts to bytes of at most 2^32 - 1 bytes and
\* the filename is not the stored name of an entry.
ZipperOtherChecksPass(path, data, isFolder) ==
    /\ isFolder \/ Zipper_toData(data).ok
    /\ \A i \in 1..Len(cd) :
           StoredName(cd[i]) # ZipperNormalized(path, isFolder)

\* C17: an addFile / addFolder call with a string path whose normalized
\* length is between 1 and 65535, and which passes the other checks,
\* registers the entry; a call whose path normalizes to the empty string or
\* to more than 65535 characters registers nothing.
C17_PathLengthDecides ==
    [][\A path \in ZipperPathInputs, data \in DataInputs, isFolder \in BOOLEAN :
           (/\ path.t = "string"
            /\ IF isFolder THEN AddFolder(path) ELSE AddFile(path, data))
           => LET n == Len(ZipperNormalized(path, isFolder))
              IN  /\ (n = 0 \/ n > MaxUint16) =>
                         (~last'.registered /\ parts' = parts /\ cd' = cd)
                  /\ (n \in 1..MaxUint16
                      /\ ZipperOtherChecksPass(path, data, isFolder)) =>
                         (last'.registered /\ Len(cd') = Len(cd) + 1)
    ]_vars

\* C17 witness: addFile with the path of 256 characters "a" has registered
\* nothing on the empty builder.
C17_Path256Skipped ==
    /\ last.op = "addFile"
    /\ last.path.t = "string" /\ Len(last.path.v) = 256
    /\ ~last.registered /\ ~last.threw /\ last.ret = 0
    /\ cd = << >> /\ parts = << >>

(***************************************************************************)
(* src/zip.js: the width of the count and offset fields.                   *)
(***************************************************************************)
\* C18: the numbers an archive reaches fit their fields, so the End Of
\* Central Directory record holds the true number of entries in both 16-bit
\* count fields (bytes 8..9 and 10..11) and the true size and offset of the
\* Central Directory in its 32-bit fields (bytes 12..15 and 16..19); nothing
\* is truncated to the width of its field.
C18_FieldsHoldTrueValues ==
    result.kind = "eocd" =>
        /\ FieldLE(result.bytes, 9, 2) = input.numEntries
        /\ FieldLE(result.bytes, 11, 2) = input.numEntries
        /\ FieldLE(result.bytes, 13, 4) = input.cdSize
        /\ FieldLE(result.bytes, 17, 4) = input.cdOffset

\* C18 witness: the record written for 65536 entries holds 0 in both count
\* fields, next to the true size and offset of the Central Directory.
C18_CountWrappedToZero ==
    /\ result.kind = "eocd"
    /\ input.numEntries = 65536
    /\ FieldLE(result.bytes, 9, 2) = 0
    /\ FieldLE(result.bytes, 11, 2) = 0
    /\ FieldLE(result.bytes, 13, 4) = 49 * 65536
    /\ FieldLE(result.bytes, 17, 4) = 33 * 65536

(***************************************************************************)
(* src/src/zip.js: dateToBytes / timeToBytes and their inverses.           *)
(***************************************************************************)
\* C19: for a Date of the years 1980..2107, bytesToDate(dateToBytes(date))
\* has the year, the month and the day of the date, and
\* bytesToTime(timeToBytes(date)) has its hour, its minute and its second
\* rounded down to an even number.
C19_DateTimeRoundTrip ==
    result.kind = "Date" =>
        /\ result.date # << >> =>
               /\ result.date[1].year = input.v.year
               /\ result.date[1].month = input.v.month
               /\ result.date[1].date = input.v.date
        /\ result.time # << >> =>
               /\ result.time[1].hours = input.v.hours
               /\ result.time[1].minutes = input.v.minutes
               /\ result.time[1].seconds = input.v.seconds - (input.v.seconds % 2)

\* C19 witness: the 29th of February 2104 at 10:29:58 has gone through both
\* round trips.
C19_LeapDayDecoded ==
    /\ result.kind = "Date"
    /\ input.v.year = 2104 /\ input.v.month = 1 /\ input.v.date = 29
    /\ result.date = << [year |-> 2104, month |-> 1, date |-> 29] >>
    /\ result.time = << [hours |-> 10, minutes |-> 29, seconds |-> 58] >>

(***************************************************************************)
(* src/tar.js: toUint8Array.                                               *)
(***************************************************************************)
\* The number of bytes the first n files take in a TAR archive: a header of
\* 512 bytes each and the data in blocks of 512 bytes.
RECURSIVE TarSpan(_)
TarSpan(n) ==
    IF n = 0 THEN 0
    ELSE TarSpan(n - 1) + 512 + (512 * ((Len(files[n].data) + 511) \div 512))

\* C20: toUint8Array() of the TAR builder returns, for the files in the
\* order they were added, a 512-byte header that starts with the path,
\* the data, and zeros up to the next multiple of 512, and after the last
\* file 1024 zero bytes; the length of the result is a multiple of 512.
C20_TarLayout ==
    (packed.made /\ packed.op = "toUint8Array") =>
        /\ packed.ok
        /\ Len(packed.bytes) = TarSpan(Len(files)) + 1024
        /\ Len(packed.bytes) % 512 = 0
        /\ \A i \in 1..Len(files) :
               LET at == TarSpan(i - 1)
                   size == Len(files[i].data)
               IN  /\ SubSeq(packed.bytes, at + 1, at + Len(files[i].path))
                          = files[i].path
                   /\ SubSeq(packed.bytes, at + 513, at + 512 + size)
                          = files[i].data
                   /\ \A k \in (at + 513 + size)..TarSpan(i) :
                          packed.bytes[k] = 0
        /\ \A k \in (TarSpan(Len(files)) + 1)..(TarSpan(Len(files)) + 1024) :
               packed.bytes[k] = 0

\* C20 witness: toUint8Array() has thrown on a builder that holds two files.
C20_ToUint8ArrayThrew ==
    /\ packed.made /\ packed.op = "toUint8Array"
    /\ ~packed.ok /\ packed.bytes = << >>
    /\ Len(files) = 2

(***************************************************************************)
(* src/zip.js: the time and date fields of the headers.                    *)
(***************************************************************************)
\* The MS-DOS time and date numbers of a Date.
DosTime(d) == (d.hours * 2048) + (d.minutes * 32) + (d.seconds \div 2)
DosDate(d) == ((d.year - 1980) * 512) + ((d.month + 1) * 32) + d.date

\* The index before the Local File Header of entry i in a materialized
\* archive of src/zip.js, and before its Central Directory Header.
RECURSIVE LocalStart(_)
LocalStart(i) ==
    IF i = 1 THEN 0
    ELSE LocalStart(i - 1) + 30 + Len(entries[i - 1].path)
         + Len(entries[i - 1].data)
RECURSIVE CentralStart(_)
CentralStart(i) ==
    IF i = 1 THEN LocalStart(Len(entries) + 1)
    ELSE CentralStart(i - 1) + 46 + Len(entries[i - 1].path)

\* The two bytes from index at + 1 on hold the time, and the two after them
\* the date, of some reading of the clock, least significant byte first.
HoldsTimeThenDate(b, at) ==
    \E t \in 0..MaxClock :
        /\ FieldLE(b, at + 1, 2) = DosTime(DateAt(t))
        /\ FieldLE(b, at + 3, 2) = DosDate(DateAt(t))

\* C21: in a materialized archive, bytes 10..11 of every Local File Header
\* and bytes 12..13 of every Central Directory Header are
\* (hour << 11) | (minute << 5) | (seconds / 2), and the two bytes after
\* them ((year - 1980) << 9) | (month << 5) | day, each with the least
\* significant byte first.
C21_TimeDateLittleEndian ==
    (packed.made /\ packed.ok) =>
        \A i \in 1..Len(entries) :
            /\ HoldsTimeThenDate(packed.bytes, LocalStart(i) + 10)
            /\ HoldsTimeThenDate(packed.bytes, CentralStart(i) + 12)

\* C21 witness: the Local File Header of a materialized entry holds the
\* time and the date of the first clock reading with the most significant
\* byte first, and the two bytes of the time differ.
C21_HighByteFirst ==
    /\ packed.made /\ packed.ok
    /\ Len(entries) = 1
    /\ SubSeq(packed.bytes, 1, 4) = <<80, 75, 3, 4>>
    /\ packed.bytes[11] = DosTime(DateAt(0)) \div 256
    /\ packed.bytes[12] = DosTime(DateAt(0)) % 256
    /\ packed.bytes[13] = DosDate(DateAt(0)) \div 256
    /\ packed.bytes[14] = DosDate(DateAt(0)) % 256
    /\ packed.bytes[11] # packed.bytes[12]

(***************************************************************************)
(* The stored path.                                                        *)
(***************************************************************************)
\* A control character: below the space, or DEL.
ControlCharacter(ch) == ch < 32 \/ ch = 127

\* A stored path is normalized: no control character, no two '/' in a row,
\* no '/' and no white space at either end.
IsNormalized(s) ==
    /\ \A i \in 1..Len(s) : ~ControlCharacter(s[i])
    /\ \A i \in 1..(Len(s) - 1) : s[i] # Slash \/ s[i + 1] # Slash
    /\ s # << >> =>
           /\ s[1] # Slash /\ ~IsWhiteSpace(s[1])
           /\ s[Len(s)] # Slash /\ ~IsWhiteSpace(s[Len(s)])

\* C22: the path a successful first add of a builder stores (addEntry of
\* src/zip.js, addFile of src/src/zip.js) is normalized, and an add of the
\* stored path stores the same path again.
C22_StoredPathNormalized ==
    result.kind = "path" =>
        /\ (result.zip # << >> /\ result.zip[1].registered) =>
               LET stored == result.zip[1].entries[1].path
               IN  /\ IsNormalized(stored)
                   /\ normalizePath(JsString(stored)) = stored
        /\ (result.zipper # << >> /\ result.zipper[1].registered) =>
               LET stored == bytesToString(StoredName(result.zipper[1].cd[1]))
                   again == Zipper_addEntry(<< >>, << >>, now, JsString(stored),
                                            JsUint8Array(<<66, 66, 66>>), FALSE)
               IN  /\ IsNormalized(stored)
                   /\ again.registered
                   /\ StoredName(again.cd[1]) = StoredName(result.zipper[1].cd[1])

\* C22 witness: addEntry of src/zip.js, called with a path of two control
\* characters and an "a", has stored a path that starts with a control
\* character.
C22_ControlCharacterStored ==
    /\ result.kind = "path"
    /\ input.v = <<1, 1, 97>>
    /\ result.zip # << >> /\ result.zip[1].registered
    /\ result.zip[1].entries[1].path = <<1, 97>>

(***************************************************************************)
(* src/unnamed/part_001: the offsets of the Central Directory.             *)
(***************************************************************************)
\* The number of bytes of the first n chunks of the output, a wide number.
RECURSIVE BytesEnqueued(_)
BytesEnqueued(n) ==
    IF n = 0 THEN Wide(0)
    ELSE WideAdd(BytesEnqueued(n - 1), out[n].chunk.length)

\* The place in the output of the Local File Header of call k.
HeaderPlace(k) ==
    CHOOSE p \in 1..Len(out) : out[p].call = k /\ out[p].kind = "header"

\* C23: this._totalBytes is the number of bytes of all chunks enqueued so
\* far, and the offset field (bytes 42..45) of the Central Directory Header
\* of every addStream call that has returned is the number of bytes
\* enqueued before the Local File Header of that call.
C23_StreamOffsets ==
    /\ totalBytes = BytesEnqueued(Len(out))
    /\ \A k \in 1..Len(calls) :
           calls[k].pc = "returned" =>
               /\ \E p \in 1..Len(out) : out[p].call = k /\ out[p].kind = "header"
               /\ SubSeq(streamCd[calls[k].ret], 43, 46)
                      = WideLE(BytesEnqueued(HeaderPlace(k) - 1))

\* C23 witness: the first call was abandoned with more than 2^32 - 1 bytes
\* after its header and one byte of data went out, the second call, made
\* after that byte, has returned, and its offset field holds 32.
C23_EntryAfterAbandonedOne ==
    /\ Len(calls) = 2
    /\ calls[1].pc = "rejected" /\ WideGt(calls[1].fileLength, MaxUint32)
    /\ calls[2].pc = "returned"
    /\ FieldLE(streamCd[calls[2].ret], 43, 4) = 32
    /\ Len(out) >= 3 /\ out[1].call = 1 /\ out[2].call = 1 /\ out[3].call = 2

(***************************************************************************)
(* src/tar.js: the padding of the data.                                    *)
(***************************************************************************)
\* The fewest zero bytes that bring n bytes to a multiple of 512.
TarPadding(n) == (512 - (n % 512)) % 512

\* C24: in the chunks _pack() returns, the data of every file is followed
\* by exactly (512 - (length mod 512)) mod 512 zero bytes: the header of
\* file i starts 512-byte blocks after the start, right after the padded
\* data of the files before it, and the chunks end after the padded data of
\* the last file.
C24_FewestPaddingBytes ==
    (packed.made /\ packed.op = "_pack") =>
        LET b == concatArrays(packed.chunks)
        IN  /\ Len(b) = TarSpan(Len(files))
            /\ \A i \in 1..Len(files) :
                   LET at == TarSpan(i - 1)
                       size == Len(files[i].data)
                   IN  /\ TarSpan(i) = at + 512 + size + TarPadding(size)
                       /\ SubSeq(b, at + 101, at + 107)
                              = <<48, 48, 48, 54, 52, 52, 32>>
                       /\ SubSeq(b, at + 513, at + 512 + size) = files[i].data
                       /\ \A k \in (at + 513 + size)..TarSpan(i) : b[k] = 0

\* C24 witness: _pack() of a builder that holds one file of 512 bytes has
\* returned the header, the data and a third chunk of 512 zero bytes.
C24_WholeBlockOfPadding ==
    /\ packed.made /\ packed.op = "_pack"
    /\ Len(files) = 1 /\ Len(files[1].data) = 512
    /\ Len(packed.chunks) = 3
    /\ packed.chunks[2] = files[1].data
    /\ packed.chunks[3] = [k \in 1..512 |-> 0]

(***************************************************************************)
(* src/tar.js: getTarHeader.                                               *)
(***************************************************************************)
\* The k octal digits of n, most significant first, as character codes.
OctalDigits(n, k) == [j \in 1..k |-> 48 + ((n \div (8 ^ (k - j))) % 8)]

\* C25: getTarHeader returns 512 bytes, and the twelve bytes from offset 124
\* on are the size written as eleven octal digits, padded with zeros on the
\* left, and a space.
C25_SizeFieldOctal ==
    result.kind = "tarHeader" =>
        /\ Len(result.bytes) = 512
        /\ SubSeq(result.bytes, 125, 135) = OctalDigits(input.size, 11)
        /\ result.bytes[136] = 32

\* C25 witness: the header for a size of 8 is 512 bytes long and its size
\* field reads "00000000008 ".
C25_EightWrittenAsEight ==
    /\ result.kind = "tarHeader"
    /\ input.size = 8
    /\ Len(result.bytes) = 512
    /\ SubSeq(result.bytes, 125, 136)
           = <<48, 48, 48, 48, 48, 48, 48, 48, 48, 48, 56, 32>>

(***************************************************************************)
(* src/zip.js: the time and date of the two headers of an entry.           *)
(***************************************************************************)
\* C26: in a materialized archive the four time and date bytes of the Local
\* File Header of every entry (bytes 10..13) are the four time and date
\* bytes of its Central Directory Header (bytes 12..15).
C26_SameTimeInBothHeaders ==
    (packed.made /\ packed.ok) =>
        \A i \in 1..Len(entries) :
            SubSeq(packed.bytes, LocalStart(i) + 11, LocalStart(i) + 14)
                = SubSeq(packed.bytes, CentralStart(i) + 13, CentralStart(i) + 16)

\* C26 witness: an archive of one entry was materialized while the clock
\* moved on: its Local File Header holds the time of the first clock
\* reading and its Central Directory Header the time of the last one.
C26_ClockMovedBetweenHeaders ==
    /\ packed.made /\ packed.ok
    /\ Len(entries) = 1
    /\ SubSeq(packed.bytes, 11, 14) = dateToBytes(DateAt(0))
    /\ SubSeq(packed.bytes, CentralStart(1) + 1, CentralStart(1) + 4)
           = <<80, 75, 1, 2>>
    /\ SubSeq(packed.bytes, CentralStart(1) + 13, CentralStart(1) + 16)
           = dateToBytes(DateAt(MaxClock))
    /\ dateToBytes(DateAt(0)) # dateToBytes(DateAt(MaxClock))

====
